---- MODULE Spec2Model ----
(***************************************************************************)
(* A model of the shift-schedule application: the state kept by the        *)
(* useSchedule hook (staff, schedule, config, previous-period trail,       *)
(* generation status), the auto-generation round trip to the external      *)
(* optimizer, and the feasibility checker with its constraint registry.    *)
(*                                                                         *)
(* Dates.  The program handles dates as 'yyyy-MM-dd' strings and moves     *)
(* between them with parseISO / addDays / format.  On valid calendar dates *)
(* these are a bijection with the day number, string order is day order,   *)
(* and addDays is integer addition, so a date is modelled as its day       *)
(* number, counted from a Sunday: getDay(d) = d % 7 with 0 = Sunday.       *)
(*                                                                         *)
(* Optional fields (juhuDay?, context.date?, staffJuhuDays?) are modelled  *)
(* as sequences of length at most one: << >> is undefined.  isLocked? is   *)
(* a BOOLEAN, FALSE standing for both false and undefined (the program     *)
(* only ever tests its truthiness).                                        *)
(***************************************************************************)
EXTENDS Integers, Sequences, FiniteSets, TLC

VARIABLES
    apiConfigured,      \* isApiConfigured(): VITE_SOLVER_API_URL is set (fixed at build time)
    staff,              \* Staff[]
    schedule,           \* Schedule: startDate, assignments, staffJuhuDays
    config,             \* ConstraintConfig
    previousPeriodEnd,  \* ShiftAssignment[]
    generationStatus,   \* 'idle' | 'loading' | 'success' | 'error'
    preCheckResult,     \* FeasibilityCheckResponse | null
    showAllViolations,  \* boolean
    editingCell,        \* << >> or <<[staffId, date]>>: the grid cell that has focus
    pc,                 \* where generateAutoSchedule is suspended
    request,            \* what the suspended generateAutoSchedule closed over
    reply,              \* the settled fetch the suspended call will resume with
    evaluation,         \* checkFeasibility: position in the registry loop and violations so far
    result,             \* checkFeasibility: the FeasibilityResult returned
    hoveredCell,        \* << >> or <<[staffId, date]>>: the grid cell under the pointer
    impacts,            \* CellImpact[]: what calculateCellImpact returned
    affectedCells,      \* Map<string, ImpactReason>: what buildImpactMap returned
    timeZoneOffset,     \* the browser's time zone, in hours east of UTC
    initialValue,       \* useLocalStorage: the initialValue argument
    localStorage,       \* the item under the key: << >> or <<the value its JSON text holds>>
    storedValue,        \* useLocalStorage: each tab's storedValue
    isFirstRender,      \* useLocalStorage: each tab's isFirstRender.current
    persistPending,     \* each tab: the persist effect is scheduled and has not run
    storageEvents       \* each tab: the storage events dispatched to it and not handled

vars == <<apiConfigured, staff, schedule, config, previousPeriodEnd, generationStatus,
          preCheckResult, showAllViolations, editingCell, pc, request, reply,
          evaluation, result, hoveredCell, impacts, affectedCells, timeZoneOffset,
          initialValue, localStorage, storedValue, isFirstRender, persistPending,
          storageEvents>>

hookVars == <<apiConfigured, staff, schedule, config, previousPeriodEnd, generationStatus,
              preCheckResult, showAllViolations, editingCell, pc, request, reply>>

checkVars == <<evaluation, result>>

impactVars == <<hoveredCell, impacts, affectedCells, timeZoneOffset>>

storageVars == <<initialValue, localStorage, storedValue, isFirstRender, persistPending,
                 storageEvents>>

----------------------------------------------------------------------------
(* Bounds of the model and program constants *)

\* Day offsets 0..MaxReplyDay of the period are the cells an optimizer answer fills.
MaxReplyDay == 1

periodDays == 28

Null == [kind |-> "null"]

\* The tabs that have the application open
Tabs == {"tab1", "tab2"}

\* a tab that has not rendered the hook yet
Unmounted == [kind |-> "unmounted"]

\* Asia/Seoul, the zone of the application's users: UTC+9 all year
SeoulOffset == 9

\* no cell is hovered: the hook's affectedCells is the empty Map
NothingHovered ==
    /\ hoveredCell = << >>
    /\ impacts = << >>
    /\ affectedCells = << >>
    /\ timeZoneOffset = SeoulOffset

\* no tab has rendered useLocalStorage and the key is absent
NothingStored ==
    /\ initialValue = Null
    /\ localStorage = << >>
    /\ storedValue = [t \in Tabs |-> Unmounted]
    /\ isFirstRender = [t \in Tabs |-> TRUE]
    /\ persistPending = [t \in Tabs |-> FALSE]
    /\ storageEvents = [t \in Tabs |-> << >>]
NoReply == [kind |-> "pending"]
NoRequest == [kind |-> "none"]

\* Day numbers of the start dates the user picks: 8 is a Monday, 9 a Tuesday.
StartDates == {8, 9}
StaffIds == {"s1"}
EditShifts == {"D"}
\* Day offsets of the grid cells the user edits
EditOffsets == {0}

----------------------------------------------------------------------------
(* Sequences *)

Range(s) == {s[i] : i \in DOMAIN s}

RECURSIVE Flatten(_)
Flatten(ss) == IF Len(ss) = 0 THEN << >> ELSE Head(ss) \o Flatten(Tail(ss))

\* The least index of a set of indices; 0 when the set is empty
FirstOf(hits) == IF hits = {} THEN 0 ELSE CHOOSE i \in hits : \A j \in hits : i <= j

----------------------------------------------------------------------------
(* Configuration *)

getDefaultConfig ==
    [ maxConsecutiveNights |-> 4,
      monthlyNightsRequired |-> 7,
      weeklyWorkHours |-> 40,
      weekdayStaffing |-> [day |-> [min |-> 1, max |-> 2],
                           evening |-> [min |-> 2, max |-> 2],
                           night |-> [min |-> 1, max |-> 2]],
      weekendStaffing |-> [day |-> [min |-> 2, max |-> 2],
                           evening |-> [min |-> 2, max |-> 2],
                           night |-> [min |-> 2, max |-> 2]],
      enabledConstraints |-> [shiftOrder |-> TRUE, nightOffDay |-> TRUE,
                              consecutiveNight |-> TRUE, monthlyNight |-> TRUE,
                              staffing |-> TRUE, weeklyOff |-> TRUE],
      constraintSeverity |-> [shiftOrder |-> "hard", nightOffDay |-> "hard",
                              consecutiveNight |-> "hard", monthlyNight |-> "soft",
                              staffing |-> "hard", weeklyOff |-> "hard"],
      softConstraints |-> [maxConsecutiveWork |-> [enabled |-> TRUE, maxDays |-> 5],
                           nightBlockPolicy |-> [enabled |-> TRUE, minBlockSize |-> 2],
                           maxPeriodOff |-> [enabled |-> FALSE, maxOff |-> 9],
                           maxConsecutiveOff |-> [enabled |-> FALSE, maxDays |-> 2],
                           gradualShiftProgression |-> [enabled |-> TRUE],
                           maxSameShiftConsecutive |-> [enabled |-> TRUE],
                           restClustering |-> [enabled |-> TRUE],
                           postRestDayShift |-> [enabled |-> TRUE],
                           weekendFairness |-> [enabled |-> TRUE],
                           shiftContinuity |-> [enabled |-> TRUE]] ]

----------------------------------------------------------------------------
(* The useSchedule hook: staff and schedule actions *)

SameCell(a, staffId, date) == a.staffId = staffId /\ a.date = date

\* assignments.findIndex(a => a.staffId === staffId && a.date === date), 1-based;
\* 0 when nothing matches (-1 in the program)
findIndex(assignments, staffId, date) ==
    FirstOf({i \in DOMAIN assignments : SameCell(assignments[i], staffId, date)})

\* The grid shows the staff list against the 28 dates from schedule.startDate
GridDates == {schedule.startDate + i : i \in EditOffsets}
StaffIdsOf(staffList) == {staffList[i].id : i \in DOMAIN staffList}

addStaff(id) ==
    /\ id \notin StaffIdsOf(staff)
    /\ staff' = Append(staff, [id |-> id, juhuDay |-> << >>])
    /\ UNCHANGED <<apiConfigured, schedule, config, previousPeriodEnd, generationStatus,
                   preCheckResult, showAllViolations, editingCell, pc, request, reply,
                   checkVars, impactVars, storageVars>>

removeStaff(staffId) ==
    /\ staffId \in StaffIdsOf(staff)
    /\ staff' = SelectSeq(staff, LAMBDA s : s.id # staffId)
    /\ schedule' = [schedule EXCEPT
                      !.assignments = SelectSeq(@, LAMBDA a : a.staffId # staffId)]
    /\ previousPeriodEnd' = SelectSeq(previousPeriodEnd, LAMBDA a : a.staffId # staffId)
    /\ UNCHANGED <<apiConfigured, config, generationStatus, preCheckResult,
                   showAllViolations, editingCell, pc, request, reply,
                   checkVars, impactVars, storageVars>>

\* A faulty variant: the cell's assignment is appended without looking for one
appendedAssignments(assignments, staffId, date, shift) ==
    Append(assignments,
        [staffId |-> staffId, date |-> date, shift |-> shift, isLocked |-> FALSE])

updatedAssignments(assignments, staffId, date, shift) ==
    LET existingIndex == findIndex(assignments, staffId, date)
    IN  IF existingIndex > 0
        THEN [assignments EXCEPT ![existingIndex] =
                [staffId |-> staffId, date |-> date, shift |-> shift,
                 isLocked |-> assignments[existingIndex].isLocked]]
        ELSE Append(assignments,
                [staffId |-> staffId, date |-> date, shift |-> shift, isLocked |-> FALSE])

updateAssignment(staffId, date, shift) ==
    /\ schedule' = [schedule EXCEPT
                      !.assignments = updatedAssignments(@, staffId, date, shift)]
    /\ UNCHANGED <<apiConfigured, staff, config, previousPeriodEnd, generationStatus,
                   preCheckResult, showAllViolations, editingCell, pc, request, reply,
                   checkVars, impactVars, storageVars>>

toggledAssignments(assignments, staffId, date) ==
    LET existingIndex == findIndex(assignments, staffId, date)
    IN  IF existingIndex > 0
        THEN [assignments EXCEPT ![existingIndex].isLocked = ~@]
        ELSE Append(assignments,
                [staffId |-> staffId, date |-> date, shift |-> "OFF", isLocked |-> TRUE])

toggleLock(staffId, date) ==
    /\ schedule' = [schedule EXCEPT !.assignments = toggledAssignments(@, staffId, date)]
    /\ UNCHANGED <<apiConfigured, staff, config, previousPeriodEnd, generationStatus,
                   preCheckResult, showAllViolations, editingCell, pc, request, reply,
                   checkVars, impactVars, storageVars>>

setStartDate(date) ==
    /\ schedule' = [schedule EXCEPT !.startDate = date, !.assignments = << >>]
    /\ previousPeriodEnd' = << >>
    /\ UNCHANGED <<apiConfigured, staff, config, generationStatus, preCheckResult,
                   showAllViolations, editingCell, pc, request, reply,
                   checkVars, impactVars, storageVars>>

clearSchedule ==
    /\ schedule' = [schedule EXCEPT !.assignments = << >>]
    /\ UNCHANGED <<apiConfigured, staff, config, previousPeriodEnd, generationStatus,
                   preCheckResult, showAllViolations, editingCell, pc, request, reply,
                   checkVars, impactVars, storageVars>>

\* PreviousPeriodInput: one cell of the days before the period is given a shift
handleShiftChange(staffId, date, shift) ==
    LET existingIndex == findIndex(previousPeriodEnd, staffId, date)
        entry == [staffId |-> staffId, date |-> date, shift |-> shift, isLocked |-> FALSE]
    IN  /\ previousPeriodEnd' =
              IF existingIndex > 0
              THEN [previousPeriodEnd EXCEPT ![existingIndex] = entry]
              ELSE Append(previousPeriodEnd, entry)
        /\ UNCHANGED <<apiConfigured, staff, schedule, config, generationStatus,
                       preCheckResult, showAllViolations, editingCell, pc, request, reply,
                       checkVars, impactVars, storageVars>>

----------------------------------------------------------------------------
(* The useSchedule hook: auto-generation.  generateAutoSchedule is an async *)
(* function: it runs to its first await (the pre-check fetch), resumes when *)
(* that fetch settles, runs to its second await (the generate fetch) and    *)
(* resumes again.  What it closed over when it was called (staff, schedule, *)
(* previousPeriodEnd of that render) is kept in request.                    *)

ErrorCodes == {"INFEASIBLE", "TIMEOUT", "INVALID_INPUT"}
ReplyShifts == {"E"}

\* The answers the optimizer may give to POST /check-feasibility; "throw" is a
\* rejected fetch or a response that is not ok
CheckReplies ==
    {[kind |-> "check", feasible |-> f] : f \in BOOLEAN} \cup {[kind |-> "throw"]}

ReplyAssignments(req, shift) ==
    Flatten([i \in 1..Len(req.staff) |->
        [k \in 1..(MaxReplyDay + 1) |->
            [staffId |-> req.staff[i].id, date |-> req.startDate + k - 1,
             shift |-> shift, isLocked |-> FALSE]]])

\* The juhu day the optimizer picks is a Tuesday: day 9, which every period the
\* model starts contains among the first days
ReplyJuhuDays(req) ==
    [i \in 1..Len(req.staff) |-> [staffId |-> req.staff[i].id, juhuDay |-> 2]]

\* The answers the optimizer may give to POST /generate
GenerateReplies(req) ==
    {[kind |-> "generate", success |-> TRUE, schedule |-> <<[assignments |-> a]>>,
      staffJuhuDays |-> j, error |-> << >>] :
        a \in {ReplyAssignments(req, sh) : sh \in ReplyShifts} \cup {<< >>},
        j \in {<< >>, <<ReplyJuhuDays(req)>>}}
    \cup {[kind |-> "generate", success |-> TRUE, schedule |-> << >>,
           staffJuhuDays |-> << >>, error |-> << >>]}
    \cup {[kind |-> "generate", success |-> FALSE, schedule |-> << >>,
           staffJuhuDays |-> << >>, error |-> <<c>>] : c \in ErrorCodes}
    \cup {[kind |-> "throw"]}

\* App.tsx: the button is rendered when the API is configured and is disabled
\* while a generation is loading or when there is no staff
generateButtonEnabled ==
    apiConfigured /\ ~(generationStatus = "loading" \/ Len(staff) = 0)

lockedAssignmentsOf(assignments) == SelectSeq(assignments, LAMBDA a : a.isLocked)

\* generateAutoSchedule up to its first await
generateAutoSchedule ==
    /\ generateButtonEnabled
    /\ pc = "idle"
    /\ IF ~apiConfigured \/ Len(staff) = 0
       THEN UNCHANGED <<generationStatus, pc, request, reply>>
       ELSE /\ generationStatus' = "loading"
            /\ request' = [kind |-> "generate", staff |-> staff,
                           startDate |-> schedule.startDate,
                           lockedAssignments |-> lockedAssignmentsOf(schedule.assignments)]
            /\ pc' = "awaitCheck"
            /\ reply' = NoReply
    /\ UNCHANGED <<apiConfigured, staff, schedule, config, previousPeriodEnd,
                   preCheckResult, showAllViolations, editingCell,
                   checkVars, impactVars, storageVars>>

\* The pre-check fetch settles
checkFeasibilityApiSettles(r) ==
    /\ pc = "awaitCheck"
    /\ reply = NoReply
    /\ reply' = r
    /\ UNCHANGED <<apiConfigured, staff, schedule, config, previousPeriodEnd,
                   generationStatus, preCheckResult, showAllViolations, editingCell, pc, request,
                   checkVars, impactVars, storageVars>>

\* A faulty variant: an infeasible pre-check puts the status back to idle
statusIdleOnInfeasible == "idle"

\* What generationStatus becomes when the pre-check reports infeasible
statusOnInfeasible == "error"

\* generateAutoSchedule from its first await to its second, or to its return
resumeAfterCheck ==
    /\ pc = "awaitCheck"
    /\ reply # NoReply
    /\ IF reply.kind = "throw"
       THEN /\ generationStatus' = "error"
            /\ pc' = "idle"
            /\ request' = NoRequest
            /\ UNCHANGED preCheckResult
       ELSE /\ preCheckResult' = reply
            /\ IF ~reply.feasible
               THEN /\ generationStatus' = statusOnInfeasible
                    /\ pc' = "idle"
                    /\ request' = NoRequest
               ELSE /\ pc' = "awaitGenerate"
                    /\ UNCHANGED <<generationStatus, request>>
    /\ reply' = NoReply
    /\ UNCHANGED <<apiConfigured, staff, schedule, config, previousPeriodEnd,
                   showAllViolations, editingCell, checkVars, impactVars, storageVars>>

\* The generate fetch settles
generateScheduleSettles(r) ==
    /\ pc = "awaitGenerate"
    /\ reply = NoReply
    /\ reply' = r
    /\ UNCHANGED <<apiConfigured, staff, schedule, config, previousPeriodEnd,
                   generationStatus, preCheckResult, showAllViolations, editingCell, pc, request,
                   checkVars, impactVars, storageVars>>

\* A faulty variant: the optimizer's answer replaces the whole schedule
mergedTakingGenerated(lockedAssignments, generated) == generated

\* Merge: keep locked assignments, add non-conflicting generated assignments
mergedAssignments(lockedAssignments, generated) ==
    lockedAssignments \o
    SelectSeq(generated, LAMBDA g :
        ~\E i \in DOMAIN lockedAssignments :
            lockedAssignments[i].staffId = g.staffId /\ lockedAssignments[i].date = g.date)

\* A faulty variant: a failed generation empties the schedule
scheduleClearedOnFailure(prev) == [prev EXCEPT !.assignments = << >>]

\* The schedule after a generate call that did not succeed
scheduleOnFailure(prev) == prev

\* generateAutoSchedule from its second await to its return
resumeAfterGenerate ==
    /\ pc = "awaitGenerate"
    /\ reply # NoReply
    /\ IF reply.kind = "throw"
       THEN /\ generationStatus' = "error"
            /\ schedule' = scheduleOnFailure(schedule)
            /\ UNCHANGED <<preCheckResult, showAllViolations>>
       ELSE IF reply.success /\ reply.schedule # << >>
       THEN /\ schedule' = [schedule EXCEPT
                  !.assignments = mergedAssignments(request.lockedAssignments,
                                                    reply.schedule[1].assignments),
                  !.staffJuhuDays = reply.staffJuhuDays]
            /\ generationStatus' = "success"
            /\ showAllViolations' = TRUE
            /\ preCheckResult' = Null
       ELSE /\ generationStatus' = "error"
            /\ schedule' = scheduleOnFailure(schedule)
            /\ UNCHANGED <<preCheckResult, showAllViolations>>
    /\ pc' = "idle"
    /\ request' = NoRequest
    /\ reply' = NoReply
    /\ UNCHANGED <<apiConfigured, staff, config, previousPeriodEnd, editingCell,
                   checkVars, impactVars, storageVars>>

----------------------------------------------------------------------------
(* Constraint evaluation: shared helpers.  A violation is                   *)
(*   [constraintId, severity, message, context: [staffId, date, dates]]     *)
(* where message is the tuple of the values the program interpolates into   *)
(* the text, and the constraint and staff display names are left out.       *)

NoShift == "null"
Days == 0..(periodDays - 1)

getDay(date) == date % 7
\* date-fns isWeekend: Saturday or Sunday
isWeekend(date) == getDay(date) = 0 \/ getDay(date) = 6

\* assignments.find(a => a.staffId === staffId && a.date === date)?.shift ?? null
getShiftForStaffOnDate(assignments, staffId, date) ==
    LET i == findIndex(assignments, staffId, date)
    IN  IF i > 0 THEN assignments[i].shift ELSE NoShift

\* Array.prototype.sort by date, ascending; the sort is stable
RECURSIVE SortByDateAsc(_)
SortByDateAsc(s) ==
    IF Len(s) <= 1 THEN s
    ELSE LET last == s[Len(s)]
             rest == SortByDateAsc(SubSeq(s, 1, Len(s) - 1))
             keep == Cardinality({i \in DOMAIN rest : rest[i].date <= last.date})
         IN  SubSeq(rest, 1, keep) \o <<last>> \o SubSeq(rest, keep + 1, Len(rest))

\* Array.prototype.sort by date, descending; the sort is stable
RECURSIVE SortByDateDesc(_)
SortByDateDesc(s) ==
    IF Len(s) <= 1 THEN s
    ELSE LET last == s[Len(s)]
             rest == SortByDateDesc(SubSeq(s, 1, Len(s) - 1))
             keep == Cardinality({i \in DOMAIN rest : rest[i].date >= last.date})
         IN  SubSeq(rest, 1, keep) \o <<last>> \o SubSeq(rest, keep + 1, Len(rest))

staffAssignmentsOf(assignments, staffId) == SelectSeq(assignments, LAMBDA a : a.staffId = staffId)

\* A faulty variant: the config's severity toggle is ignored
severityAlwaysError(cfg, constraintId) == "error"

getSeverityFromConfig(cfg, constraintId) ==
    LET severityType == IF constraintId \in DOMAIN cfg.constraintSeverity
                        THEN cfg.constraintSeverity[constraintId] ELSE "hard"
    IN  IF severityType = "hard" THEN "error" ELSE "warning"

\* config.softConstraints?.[key]?.enabled
softEnabled(cfg, key) ==
    key \in DOMAIN cfg.softConstraints /\ cfg.softConstraints[key].enabled

\* |assignments| / (staffCount * periodDays) as a fraction <<numerator, denominator>>
calculateScheduleCompleteness(assignments, staffCount) ==
    LET totalSlots == staffCount * periodDays
    IN  IF totalSlots = 0 THEN <<0, 1>> ELSE <<Len(assignments), totalSlots>>

\* fraction < 0.5
belowThreshold(fraction) == 2 * fraction[1] < fraction[2]

allAssignmentsOf(ctx) == ctx.previousPeriodEnd \o ctx.schedule.assignments

Violation(constraintId, severity, message, staffId, date, dates) ==
    [constraintId |-> constraintId, severity |-> severity, message |-> message,
     context |-> [staffId |-> staffId, date |-> date, dates |-> dates]]

\* the last element of the staff member's previous-period assignments sorted by date
lastPrevOf(ctx, staffId) ==
    LET prevAssignments == SortByDateAsc(staffAssignmentsOf(ctx.previousPeriodEnd, staffId))
    IN  IF Len(prevAssignments) > 0 THEN <<prevAssignments[Len(prevAssignments)]>> ELSE << >>

----------------------------------------------------------------------------
(* Hard constraints *)

isForbiddenTransition(from, to) ==
    <<from, to>> \in {<<"N", "D">>, <<"N", "E">>, <<"E", "D">>}

\* A faulty variant: the boundary violation is dated on the previous-period day
boundaryDateOfLastPrev(startDate, lastPrev) == lastPrev.date

\* context.date of the boundary violation: firstCurrentDate
firstCurrentDateOf(startDate, lastPrev) == startDate

shiftOrderCheck(ctx) ==
    LET severity == getSeverityFromConfig(ctx.config, "shiftOrder")
        startDate == ctx.schedule.startDate
        cur(id, d) == getShiftForStaffOnDate(ctx.schedule.assignments, id, d)
        boundary(m) ==
            LET lastPrev == lastPrevOf(ctx, m.id)
                firstCurrentShift == cur(m.id, startDate)
            IN  IF /\ Len(ctx.previousPeriodEnd) > 0
                   /\ lastPrev # << >>
                   /\ firstCurrentShift # NoShift
                   /\ isForbiddenTransition(lastPrev[1].shift, firstCurrentShift)
                THEN <<Violation("shift-order", severity,
                                 <<lastPrev[1].shift, firstCurrentShift>>,
                                 <<m.id>>, <<firstCurrentDateOf(startDate, lastPrev[1])>>,
                                 << >>)>>
                ELSE << >>
        within(m) ==
            Flatten([dx \in 1..(periodDays - 1) |-> LET i == dx - 1 IN
                LET currentShift == cur(m.id, startDate + i)
                    nextShift == cur(m.id, startDate + i + 1)
                IN  IF /\ currentShift # NoShift
                       /\ nextShift # NoShift
                       /\ isForbiddenTransition(currentShift, nextShift)
                    THEN <<Violation("shift-order", severity, <<currentShift, nextShift>>,
                                     <<m.id>>, <<startDate + i + 1>>, << >>)>>
                    ELSE << >>])
    IN  Flatten([sx \in DOMAIN ctx.staff |-> LET m == ctx.staff[sx] IN boundary(m) \o within(m)])

\* A faulty variant: any shift after N, OFF is reported
isNightOffAnyShift(day1Shift, day2Shift, day3Shift) ==
    day1Shift = "N" /\ day2Shift = "OFF" /\ day3Shift # NoShift

\* day1Shift === 'N' && day2Shift === 'OFF' && day3Shift === 'D'
isNightOffDay(day1Shift, day2Shift, day3Shift) ==
    day1Shift = "N" /\ day2Shift = "OFF" /\ day3Shift = "D"

nightOffDayCheck(ctx) ==
    LET severity == getSeverityFromConfig(ctx.config, "nightOffDay")
        startDate == ctx.schedule.startDate
        allAssignments == allAssignmentsOf(ctx)
    IN  Flatten([sx \in DOMAIN ctx.staff |-> LET m == ctx.staff[sx] IN
            Flatten([dx \in 1..(periodDays + 2) |-> LET offset == dx - 3 IN
                LET day1Date == startDate + offset
                    day2Date == startDate + offset + 1
                    day3Date == startDate + offset + 2
                IN  IF /\ isNightOffDay(getShiftForStaffOnDate(allAssignments, m.id, day1Date),
                                        getShiftForStaffOnDate(allAssignments, m.id, day2Date),
                                        getShiftForStaffOnDate(allAssignments, m.id, day3Date))
                       /\ day3Date >= startDate
                       /\ day3Date < startDate + periodDays
                    THEN <<Violation("night-off-day", severity, <<day1Date, day3Date>>,
                                     <<m.id>>, << >>, <<<<day1Date, day2Date, day3Date>>>>)>>
                    ELSE << >>])])

\* The loop over the days of the period that the consecutive-night,
\* max-consecutive-work, max-consecutive-off and max-same-shift-consecutive
\* checks share: marks[i] says whether day i - 1 extends the run ("extend":
\* consecutiveCount++, consecutiveStartDate set when the count was 0), ends it
\* ("reset") or leaves it alone ("keep"); the result is the pair
\* [count, start] after each day
RECURSIVE runStates(_, _, _)
runStates(marks, state, date) ==
    IF Len(marks) = 0 THEN << >>
    ELSE LET next ==
                 CASE Head(marks) = "extend" ->
                        [count |-> state.count + 1,
                         start |-> IF state.count = 0 THEN <<date>> ELSE state.start]
                   [] Head(marks) = "reset" -> [count |-> 0, start |-> << >>]
                   [] OTHER -> state
         IN  <<next>> \o runStates(Tail(marks), next, date + 1)

\* context.dates of a run's violation
runDates(state, currentDate) ==
    IF state.start # << >> THEN <<state.start[1], currentDate>> ELSE <<currentDate>>

\* The walk shared by countTrailingNights / findConsecutiveNightStart and by
\* countTrailingOffDays / findConsecutiveOffStart: over the staff member's
\* previous assignments sorted by date descending, expecting the day before the
\* period first; [count, last] after the loop
RECURSIVE trailingWalk(_, _, _, _, _)
trailingWalk(staffAssignments, shift, expectedDate, count, last) ==
    IF Len(staffAssignments) = 0 THEN [count |-> count, last |-> last]
    ELSE LET assignment == Head(staffAssignments)
         IN  IF assignment.date = expectedDate /\ assignment.shift = shift
             THEN trailingWalk(Tail(staffAssignments), shift, expectedDate - 1,
                               count + 1, <<expectedDate>>)
             ELSE IF assignment.date = expectedDate
             THEN [count |-> count, last |-> last]
             ELSE trailingWalk(Tail(staffAssignments), shift, expectedDate, count, last)

\* A faulty variant: the nights before the period are not counted
noTrailingNights(previousAssignments, staffId, periodStartDate) == 0

countTrailingNights(previousAssignments, staffId, periodStartDate) ==
    trailingWalk(SortByDateDesc(staffAssignmentsOf(previousAssignments, staffId)),
                 "N", periodStartDate - 1, 0, << >>).count

findConsecutiveNightStart(previousAssignments, staffId, periodStartDate) ==
    trailingWalk(SortByDateDesc(staffAssignmentsOf(previousAssignments, staffId)),
                 "N", periodStartDate - 1, 0, << >>).last

consecutiveNightCheck(ctx) ==
    LET severity == getSeverityFromConfig(ctx.config, "consecutiveNight")
        startDate == ctx.schedule.startDate
        maxConsecutive == ctx.config.maxConsecutiveNights
        allAssignments == allAssignmentsOf(ctx)
    IN  Flatten([sx \in DOMAIN ctx.staff |-> LET m == ctx.staff[sx] IN
            LET prevNightCount ==
                    countTrailingNights(ctx.previousPeriodEnd, m.id, startDate)
                seedStart ==
                    IF prevNightCount > 0
                    THEN findConsecutiveNightStart(ctx.previousPeriodEnd, m.id, startDate)
                    ELSE << >>
                marks == [k \in 1..periodDays |->
                            IF getShiftForStaffOnDate(allAssignments, m.id,
                                                      startDate + k - 1) = "N"
                            THEN "extend" ELSE "reset"]
                after == runStates(marks, [count |-> prevNightCount, start |-> seedStart],
                                   startDate)
            IN  Flatten([dx \in 1..(periodDays) |-> LET i == dx - 1 IN
                    IF marks[i + 1] = "extend" /\ after[i + 1].count > maxConsecutive
                    THEN <<Violation("consecutive-night", severity,
                                <<after[i + 1].count, maxConsecutive>>,
                                <<m.id>>, <<startDate + i>>,
                                <<runDates(after[i + 1], startDate + i)>>)>>
                    ELSE << >>])])

\* countShiftsByType(assignments, staffId)[shift]
countShiftsByType(assignments, staffId, shift) ==
    Cardinality({i \in DOMAIN assignments :
                    assignments[i].staffId = staffId /\ assignments[i].shift = shift})

monthlyNightCheck(ctx) ==
    LET severity == getSeverityFromConfig(ctx.config, "monthlyNight")
        required == ctx.config.monthlyNightsRequired
    IN  Flatten([sx \in DOMAIN ctx.staff |-> LET m == ctx.staff[sx] IN
            LET nightCount == countShiftsByType(ctx.schedule.assignments, m.id, "N")
            IN  IF nightCount # required
                THEN <<Violation("monthly-night", severity, <<nightCount, required>>,
                                 <<m.id>>, << >>, << >>)>>
                ELSE << >>])

staffingKeys == <<[shift |-> "D", key |-> "day"], [shift |-> "E", key |-> "evening"],
                  [shift |-> "N", key |-> "night"]>>

\* the staffing requirement that applies on a date
staffingReqOf(cfg, date) == IF isWeekend(date) THEN cfg.weekendStaffing ELSE cfg.weekdayStaffing

\* shiftCounts[shift] for a date: OFF is not counted
shiftCountOn(assignments, date, shift) ==
    Cardinality({i \in DOMAIN assignments :
        assignments[i].date = date /\ assignments[i].shift # "OFF"
                                   /\ assignments[i].shift = shift})

\* A faulty variant: the completeness gate is missing
staffingNeverSuppressed(ctx) == FALSE

\* scheduleCompleteness < STAFFING_ERROR_THRESHOLD
staffingSuppressed(ctx) == belowThreshold(ctx.scheduleCompleteness)

staffingCheck(ctx) ==
    IF staffingSuppressed(ctx) THEN << >>
    ELSE
    LET severity == getSeverityFromConfig(ctx.config, "staffing")
        startDate == ctx.schedule.startDate
    IN  Flatten([dx \in 1..(periodDays) |-> LET i == dx - 1 IN
            LET currentDate == startDate + i
                staffingReq == staffingReqOf(ctx.config, currentDate)
            IN  Flatten([k \in 1..Len(staffingKeys) |->
                    LET count == shiftCountOn(ctx.schedule.assignments, currentDate,
                                              staffingKeys[k].shift)
                        minRequired == staffingReq[staffingKeys[k].key].min
                    IN  IF count < minRequired
                        THEN <<Violation("staffing", severity,
                                    <<staffingKeys[k].shift, count, minRequired>>,
                                    << >>, <<currentDate>>, << >>)>>
                        ELSE << >>])])

\* A faulty variant: a juhu date without an assignment is reported too
worksUnlessOff(shift) == shift # "OFF"

\* assignment && assignment.shift !== 'OFF'
worksOnJuhuDay(shift) == shift # NoShift /\ shift # "OFF"

juhuCheck(ctx) ==
    LET severity == getSeverityFromConfig(ctx.config, "juhu")
        startDate == ctx.schedule.startDate
    IN  Flatten([sx \in DOMAIN ctx.staff |-> LET m == ctx.staff[sx] IN
            Flatten([dx \in 1..(periodDays) |-> LET i == dx - 1 IN
                LET currentDate == startDate + i
                    shift == getShiftForStaffOnDate(ctx.schedule.assignments, m.id, currentDate)
                IN  IF /\ m.juhuDay # << >>
                       /\ getDay(currentDate) = m.juhuDay[1]
                       /\ worksOnJuhuDay(shift)
                    THEN <<Violation("juhu", severity, <<currentDate>>,
                                     <<m.id>>, <<currentDate>>, << >>)>>
                    ELSE << >>])])

\* 7 - Math.ceil(weeklyWorkHours / 8)
calculateMinOffDays(weeklyWorkHours) == 7 - ((weeklyWorkHours + 7) \div 8)

\* A faulty variant: the week is gated on the completeness of the whole schedule
weekSuppressedBySchedule(ctx, weekAssignments) == belowThreshold(ctx.scheduleCompleteness)

\* weekCompleteness < WEEKLY_COMPLETENESS_THRESHOLD
weekSuppressed(ctx, weekAssignments) == belowThreshold(<<Len(weekAssignments), 7>>)

weeklyOffCheck(ctx) ==
    LET severity == getSeverityFromConfig(ctx.config, "weeklyOff")
        startDate == ctx.schedule.startDate
        minOffDays == calculateMinOffDays(ctx.config.weeklyWorkHours)
    IN  Flatten([sx \in DOMAIN ctx.staff |-> LET m == ctx.staff[sx] IN
            Flatten([dx \in 1..(4) |-> LET week == dx - 1 IN
                LET weekDates == [d \in 1..7 |-> startDate + week * 7 + d - 1]
                    weekAssignments ==
                        SelectSeq(ctx.schedule.assignments, LAMBDA a :
                            a.staffId = m.id /\ a.date \in Range(weekDates))
                    offCount == Len(SelectSeq(weekAssignments, LAMBDA a : a.shift = "OFF"))
                IN  IF ~weekSuppressed(ctx, weekAssignments) /\ offCount < minOffDays
                    THEN <<Violation("weekly-off", severity,
                                     <<week + 1, offCount, minOffDays>>,
                                     <<m.id>>, << >>, <<weekDates>>)>>
                    ELSE << >>])])

----------------------------------------------------------------------------
(* Soft constraints: each returns nothing unless its softConstraints entry  *)
(* is enabled, and reports warnings only.                                   *)

\* softConfig.<field> ?? fallback
softParam(cfg, key, field, fallback) ==
    IF field \in DOMAIN cfg.softConstraints[key]
    THEN cfg.softConstraints[key][field] ELSE fallback

isWorkShift(shift) == shift # NoShift /\ shift # "OFF"

\* shiftByDate.get(date): the Map keeps the last entry written for a date
shiftByDateOf(previousAssignments, staffId, date) ==
    LET hits == {i \in DOMAIN previousAssignments :
                    SameCell(previousAssignments[i], staffId, date)}
    IN  IF hits = {} THEN NoShift
        ELSE previousAssignments[CHOOSE i \in hits : \A j \in hits : j <= i].shift

\* the loop of countTrailingWorkDays / findConsecutiveWorkStart after i iterations
RECURSIVE trailingWorkWalk(_, _, _, _, _, _)
trailingWorkWalk(previousAssignments, staffId, checkDate, i, count, last) ==
    IF i < 7 /\ isWorkShift(shiftByDateOf(previousAssignments, staffId, checkDate))
    THEN trailingWorkWalk(previousAssignments, staffId, checkDate - 1, i + 1,
                          count + 1, <<checkDate>>)
    ELSE [count |-> count, last |-> last]

countTrailingWorkDays(previousAssignments, staffId, periodStartDate) ==
    trailingWorkWalk(previousAssignments, staffId, periodStartDate - 1, 0, 0, << >>).count

findConsecutiveWorkStart(previousAssignments, staffId, periodStartDate) ==
    trailingWorkWalk(previousAssignments, staffId, periodStartDate - 1, 0, 0, << >>).last

maxConsecutiveWorkCheck(ctx) ==
    IF ~softEnabled(ctx.config, "maxConsecutiveWork") THEN << >>
    ELSE
    LET maxDays == softParam(ctx.config, "maxConsecutiveWork", "maxDays", 5)
        startDate == ctx.schedule.startDate
        allAssignments == allAssignmentsOf(ctx)
    IN  Flatten([sx \in DOMAIN ctx.staff |-> LET m == ctx.staff[sx] IN
            LET prevWorkCount ==
                    countTrailingWorkDays(ctx.previousPeriodEnd, m.id, startDate)
                seedStart ==
                    IF prevWorkCount > 0
                    THEN findConsecutiveWorkStart(ctx.previousPeriodEnd, m.id, startDate)
                    ELSE << >>
                marks == [k \in 1..periodDays |->
                            IF isWorkShift(getShiftForStaffOnDate(allAssignments, m.id,
                                                                  startDate + k - 1))
                            THEN "extend" ELSE "reset"]
                after == runStates(marks, [count |-> prevWorkCount, start |-> seedStart],
                                   startDate)
            IN  Flatten([dx \in 1..(periodDays) |-> LET i == dx - 1 IN
                    IF marks[i + 1] = "extend" /\ after[i + 1].count > maxDays
                    THEN <<Violation("max-consecutive-work", "warning",
                                <<after[i + 1].count, maxDays>>,
                                <<m.id>>, <<startDate + i>>,
                                <<runDates(after[i + 1], startDate + i)>>)>>
                    ELSE << >>])])

\* a single N (nightBlockPolicy) or a single OFF (restClustering) between two
\* days that are not the same shift
isolatedShiftDays(ctx, constraintId, shift, details) ==
    LET startDate == ctx.schedule.startDate
        allAssignments == allAssignmentsOf(ctx)
        at(id, d) == getShiftForStaffOnDate(allAssignments, id, d)
    IN  Flatten([sx \in DOMAIN ctx.staff |-> LET m == ctx.staff[sx] IN
            Flatten([dx \in 1..(periodDays) |-> LET i == dx - 1 IN
                IF /\ at(m.id, startDate + i) = shift
                   /\ at(m.id, startDate + i - 1) # shift
                   /\ at(m.id, startDate + i + 1) # shift
                THEN <<Violation(constraintId, "warning", <<startDate + i>> \o details,
                                 <<m.id>>, <<startDate + i>>, << >>)>>
                ELSE << >>])])

nightBlockPolicyCheck(ctx) ==
    IF ~softEnabled(ctx.config, "nightBlockPolicy") THEN << >>
    ELSE isolatedShiftDays(ctx, "night-block-policy", "N",
            <<softParam(ctx.config, "nightBlockPolicy", "minBlockSize", 2)>>)

restClusteringCheck(ctx) ==
    IF ~softEnabled(ctx.config, "restClustering") THEN << >>
    ELSE isolatedShiftDays(ctx, "rest-clustering", "OFF", << >>)

maxPeriodOffCheck(ctx) ==
    IF ~softEnabled(ctx.config, "maxPeriodOff") THEN << >>
    ELSE
    LET maxOff == softParam(ctx.config, "maxPeriodOff", "maxOff", 9)
        startDate == ctx.schedule.startDate
    IN  Flatten([sx \in DOMAIN ctx.staff |-> LET m == ctx.staff[sx] IN
            LET offDates == Flatten([dx \in 1..(periodDays) |-> LET i == dx - 1 IN
                    IF getShiftForStaffOnDate(ctx.schedule.assignments, m.id,
                                              startDate + i) = "OFF"
                    THEN <<startDate + i>> ELSE << >>])
                offCount == Len(offDates)
            IN  IF offCount > maxOff
                THEN <<Violation("max-period-off", "warning", <<offCount, maxOff>>,
                                 <<m.id>>, <<offDates[Len(offDates)]>>, <<offDates>>)>>
                ELSE << >>])

countTrailingOffDays(previousAssignments, staffId, periodStartDate) ==
    trailingWalk(SortByDateDesc(staffAssignmentsOf(previousAssignments, staffId)),
                 "OFF", periodStartDate - 1, 0, << >>).count

findConsecutiveOffStart(previousAssignments, staffId, periodStartDate) ==
    trailingWalk(SortByDateDesc(staffAssignmentsOf(previousAssignments, staffId)),
                 "OFF", periodStartDate - 1, 0, << >>).last

maxConsecutiveOffCheck(ctx) ==
    IF ~softEnabled(ctx.config, "maxConsecutiveOff") THEN << >>
    ELSE
    LET maxDays == softParam(ctx.config, "maxConsecutiveOff", "maxDays", 2)
        startDate == ctx.schedule.startDate
        allAssignments == allAssignmentsOf(ctx)
    IN  Flatten([sx \in DOMAIN ctx.staff |-> LET m == ctx.staff[sx] IN
            LET prevOffCount ==
                    countTrailingOffDays(ctx.previousPeriodEnd, m.id, startDate)
                seedStart ==
                    IF prevOffCount > 0
                    THEN findConsecutiveOffStart(ctx.previousPeriodEnd, m.id, startDate)
                    ELSE << >>
                marks == [k \in 1..periodDays |->
                            LET currentShift ==
                                    getShiftForStaffOnDate(allAssignments, m.id,
                                                           startDate + k - 1)
                            IN  IF currentShift = "OFF" THEN "extend"
                                ELSE IF currentShift # NoShift THEN "reset"
                                ELSE "keep"]
                after == runStates(marks, [count |-> prevOffCount, start |-> seedStart],
                                   startDate)
            IN  Flatten([dx \in 1..(periodDays) |-> LET i == dx - 1 IN
                    IF marks[i + 1] = "extend" /\ after[i + 1].count > maxDays
                    THEN <<Violation("max-consecutive-off", "warning",
                                <<after[i + 1].count, maxDays>>,
                                <<m.id>>, <<startDate + i>>,
                                <<runDates(after[i + 1], startDate + i)>>)>>
                    ELSE << >>])])

\* gradualShiftProgression (D then N) and postRestDayShift (OFF then N): the
\* boundary pair, then each pair of adjacent days of the period
adjacentPair(ctx, constraintId, from, to) ==
    LET startDate == ctx.schedule.startDate
        allAssignments == allAssignmentsOf(ctx)
        boundary(m) ==
            LET lastPrev == lastPrevOf(ctx, m.id)
            IN  IF /\ Len(ctx.previousPeriodEnd) > 0
                   /\ lastPrev # << >>
                   /\ lastPrev[1].shift = from
                   /\ getShiftForStaffOnDate(ctx.schedule.assignments, m.id, startDate) = to
                THEN <<Violation(constraintId, "warning", <<startDate>>,
                                 <<m.id>>, <<startDate>>, << >>)>>
                ELSE << >>
        within(m) ==
            Flatten([dx \in 1..(periodDays - 1) |-> LET i == dx - 1 IN
                IF /\ getShiftForStaffOnDate(allAssignments, m.id, startDate + i) = from
                   /\ getShiftForStaffOnDate(allAssignments, m.id, startDate + i + 1) = to
                THEN <<Violation(constraintId, "warning", <<startDate + i + 1>>,
                                 <<m.id>>, <<startDate + i + 1>>, << >>)>>
                ELSE << >>])
    IN  Flatten([sx \in DOMAIN ctx.staff |-> LET m == ctx.staff[sx] IN boundary(m) \o within(m)])

gradualShiftProgressionCheck(ctx) ==
    IF ~softEnabled(ctx.config, "gradualShiftProgression") THEN << >>
    ELSE adjacentPair(ctx, "gradual-shift-progression", "D", "N")

postRestDayShiftCheck(ctx) ==
    IF ~softEnabled(ctx.config, "postRestDayShift") THEN << >>
    ELSE adjacentPair(ctx, "post-rest-day-shift", "OFF", "N")

WORK_SHIFT_TYPES == <<"D", "E", "N">>

\* the count maxSameShiftConsecutive starts the period with: the run of
\* shiftType at the end of the staff member's previous assignments sorted by date
RECURSIVE trailingSameShift(_, _)
trailingSameShift(prevAssignments, shiftType) ==
    IF Len(prevAssignments) > 0 /\ prevAssignments[Len(prevAssignments)].shift = shiftType
    THEN 1 + trailingSameShift(SubSeq(prevAssignments, 1, Len(prevAssignments) - 1), shiftType)
    ELSE 0

\* consecutiveCount of maxSameShiftConsecutive before the loop over the period
countTrailingSameShift(previousAssignments, staffId, shiftType) ==
    IF Len(previousAssignments) > 0
    THEN trailingSameShift(SortByDateAsc(staffAssignmentsOf(previousAssignments, staffId)),
                           shiftType)
    ELSE 0

maxSameShiftConsecutiveCheck(ctx) ==
    IF ~softEnabled(ctx.config, "maxSameShiftConsecutive") THEN << >>
    ELSE
    LET startDate == ctx.schedule.startDate
        allAssignments == allAssignmentsOf(ctx)
    IN  Flatten([sx \in DOMAIN ctx.staff |-> LET m == ctx.staff[sx] IN
            Flatten([t \in 1..Len(WORK_SHIFT_TYPES) |->
                LET shiftType == WORK_SHIFT_TYPES[t]
                    seed == countTrailingSameShift(ctx.previousPeriodEnd, m.id, shiftType)
                    marks == [k \in 1..periodDays |->
                                IF getShiftForStaffOnDate(allAssignments, m.id,
                                                          startDate + k - 1) = shiftType
                                THEN "extend" ELSE "reset"]
                    after == runStates(marks, [count |-> seed, start |-> << >>], startDate)
                IN  Flatten([dx \in 1..(periodDays) |-> LET i == dx - 1 IN
                        IF marks[i + 1] = "extend" /\ after[i + 1].count = 5
                        THEN <<Violation("max-same-shift-consecutive", "warning",
                                         <<startDate + i, shiftType>>,
                                         <<m.id>>, <<startDate + i>>, << >>)>>
                        ELSE << >>])])])

RECURSIVE SumOver(_, _)
SumOver(S, f) ==
    IF S = {} THEN 0 ELSE LET x == CHOOSE x \in S : TRUE IN f[x] + SumOver(S \ {x}, f)

weekendFairnessCheck(ctx) ==
    IF ~softEnabled(ctx.config, "weekendFairness") THEN << >>
    ELSE
    LET startDate == ctx.schedule.startDate
        ids == StaffIdsOf(ctx.staff)
        \* a Map keyed by staff id
        weekendWorkCounts ==
            [id \in ids |->
                Cardinality({i \in Days :
                    /\ isWeekend(startDate + i)
                    /\ isWorkShift(getShiftForStaffOnDate(ctx.schedule.assignments, id,
                                                          startDate + i))})]
        weekendWorkDays(id) == weekendWorkCounts[id]
        total == SumOver(ids, weekendWorkCounts)
    IN  IF ids = {} THEN << >>
        ELSE Flatten([sx \in DOMAIN ctx.staff |-> LET m == ctx.staff[sx] IN
                \* count - total / |ids| > 2
                IF weekendWorkDays(m.id) * Cardinality(ids) - total > 2 * Cardinality(ids)
                THEN <<Violation("weekend-fairness", "warning",
                                 <<weekendWorkDays(m.id), total, Cardinality(ids)>>,
                                 <<m.id>>, << >>, << >>)>>
                ELSE << >>])

\* shiftChanges after the loop over the staff member's shifts of the period
RECURSIVE countShiftChanges(_, _)
countShiftChanges(shifts, lastWorkShift) ==
    IF Len(shifts) = 0 THEN 0
    ELSE IF ~isWorkShift(Head(shifts)) THEN countShiftChanges(Tail(shifts), lastWorkShift)
    ELSE (IF lastWorkShift # NoShift /\ lastWorkShift # Head(shifts) THEN 1 ELSE 0)
         + countShiftChanges(Tail(shifts), Head(shifts))

shiftContinuityCheck(ctx) ==
    IF ~softEnabled(ctx.config, "shiftContinuity") THEN << >>
    ELSE
    LET startDate == ctx.schedule.startDate
    IN  Flatten([sx \in DOMAIN ctx.staff |-> LET m == ctx.staff[sx] IN
            LET shifts == [k \in 1..periodDays |->
                            getShiftForStaffOnDate(ctx.schedule.assignments, m.id,
                                                   startDate + k - 1)]
                shiftChanges == countShiftChanges(shifts, NoShift)
            IN  IF shiftChanges > 10
                THEN <<Violation("shift-continuity", "warning", <<shiftChanges, 10>>,
                                 <<m.id>>, << >>, << >>)>>
                ELSE << >>])

----------------------------------------------------------------------------
(* The registry and checkFeasibility *)

constraintRegistry ==
    << [id |-> "shift-order", severityType |-> "hard"],
       [id |-> "night-off-day", severityType |-> "hard"],
       [id |-> "consecutive-night", severityType |-> "hard"],
       [id |-> "monthly-night", severityType |-> "soft"],
       [id |-> "staffing", severityType |-> "hard"],
       [id |-> "juhu", severityType |-> "soft"],
       [id |-> "weekly-off", severityType |-> "hard"],
       [id |-> "max-consecutive-work", severityType |-> "soft"],
       [id |-> "night-block-policy", severityType |-> "soft"],
       [id |-> "max-period-off", severityType |-> "soft"],
       [id |-> "max-consecutive-off", severityType |-> "soft"],
       [id |-> "gradual-shift-progression", severityType |-> "soft"],
       [id |-> "max-same-shift-consecutive", severityType |-> "soft"],
       [id |-> "rest-clustering", severityType |-> "soft"],
       [id |-> "post-rest-day-shift", severityType |-> "soft"],
       [id |-> "weekend-fairness", severityType |-> "soft"],
       [id |-> "shift-continuity", severityType |-> "soft"] >>

\* constraint.check(context).violations
check(id, ctx) ==
    CASE id = "shift-order" -> shiftOrderCheck(ctx)
      [] id = "night-off-day" -> nightOffDayCheck(ctx)
      [] id = "consecutive-night" -> consecutiveNightCheck(ctx)
      [] id = "monthly-night" -> monthlyNightCheck(ctx)
      [] id = "staffing" -> staffingCheck(ctx)
      [] id = "juhu" -> juhuCheck(ctx)
      [] id = "weekly-off" -> weeklyOffCheck(ctx)
      [] id = "max-consecutive-work" -> maxConsecutiveWorkCheck(ctx)
      [] id = "night-block-policy" -> nightBlockPolicyCheck(ctx)
      [] id = "max-period-off" -> maxPeriodOffCheck(ctx)
      [] id = "max-consecutive-off" -> maxConsecutiveOffCheck(ctx)
      [] id = "gradual-shift-progression" -> gradualShiftProgressionCheck(ctx)
      [] id = "max-same-shift-consecutive" -> maxSameShiftConsecutiveCheck(ctx)
      [] id = "rest-clustering" -> restClusteringCheck(ctx)
      [] id = "post-rest-day-shift" -> postRestDayShiftCheck(ctx)
      [] id = "weekend-fairness" -> weekendFairnessCheck(ctx)
      [] id = "shift-continuity" -> shiftContinuityCheck(ctx)

\* mapping[id] ?? null, null being << >>
constraintIdToConfigKey(id) ==
    CASE id = "shift-order" -> <<"shiftOrder">>
      [] id = "night-off-day" -> <<"nightOffDay">>
      [] id = "consecutive-night" -> <<"consecutiveNight">>
      [] id = "monthly-night" -> <<"monthlyNight">>
      [] id = "staffing" -> <<"staffing">>
      [] id = "weekly-off" -> <<"weeklyOff">>
      [] OTHER -> << >>

\* constraintKey && !config.enabledConstraints[constraintKey]
skippedByConfig(cfg, id) ==
    LET constraintKey == constraintIdToConfigKey(id)
    IN  /\ constraintKey # << >>
        /\ ~(/\ constraintKey[1] \in DOMAIN cfg.enabledConstraints
             /\ cfg.enabledConstraints[constraintKey[1]])

\* the ConstraintContext checkFeasibility builds from its arguments
contextOf(sched, staffList, cfg, prev) ==
    [schedule |-> sched, staff |-> staffList, config |-> cfg, previousPeriodEnd |-> prev,
     scheduleCompleteness |-> calculateScheduleCompleteness(sched.assignments, Len(staffList))]

\* A faulty variant: feasible only when there is no violation at all
feasibleIfNoViolations(violations) == Len(violations) = 0

\* !violations.some(v => v.severity === 'error')
feasibleOf(violations) == ~\E i \in DOMAIN violations : violations[i].severity = "error"

NoEvaluation == [i |-> 0, violations |-> << >>]

\* A faulty variant: each constraint's violations are put in front
violationsUnshifted(violations, emitted) == emitted \o violations

\* violations.push(...result.violations)
violationsPushed(violations, emitted) == violations \o emitted

\* one iteration of the loop over constraintRegistry
checkConstraint ==
    /\ result = Null
    /\ evaluation.i < Len(constraintRegistry)
    /\ LET constraint == constraintRegistry[evaluation.i + 1]
       IN  evaluation' =
             [i |-> evaluation.i + 1,
              violations |->
                 IF skippedByConfig(config, constraint.id) THEN evaluation.violations
                 ELSE violationsPushed(evaluation.violations,
                          check(constraint.id,
                                contextOf(schedule, staff, config, previousPeriodEnd)))]
    /\ UNCHANGED <<hookVars, impactVars, storageVars, result>>

\* after the loop: feasible, and the FeasibilityResult returned
checkReturn ==
    /\ result = Null
    /\ evaluation.i = Len(constraintRegistry)
    /\ result' = [feasible |-> feasibleOf(evaluation.violations),
                  violations |-> evaluation.violations]
    /\ UNCHANGED <<hookVars, impactVars, storageVars, evaluation>>

----------------------------------------------------------------------------
(* The application: the hook under the user's and the optimizer's actions *)

Init ==
    /\ apiConfigured \in BOOLEAN
    /\ staff = << >>
    /\ schedule \in {[startDate |-> d, assignments |-> << >>, staffJuhuDays |-> << >>] :
                        d \in StartDates}
    /\ config = getDefaultConfig
    /\ previousPeriodEnd = << >>
    /\ generationStatus = "idle"
    /\ preCheckResult = Null
    /\ showAllViolations = FALSE
    /\ editingCell = << >>
    /\ NothingHovered
    /\ NothingStored
    /\ pc = "idle"
    /\ request = NoRequest
    /\ reply = NoReply
    /\ evaluation = NoEvaluation
    /\ result = Null

AddStaff == \E id \in StaffIds : addStaff(id)
RemoveStaff == \E id \in StaffIds : removeStaff(id)
UpdateAssignment ==
    \E s \in StaffIdsOf(staff), d \in GridDates, sh \in EditShifts : updateAssignment(s, d, sh)
ToggleLock == \E s \in StaffIdsOf(staff), d \in GridDates : toggleLock(s, d)
SetStartDate == \E d \in StartDates : setStartDate(d)
ClearSchedule == clearSchedule
EditPreviousPeriod ==
    \E s \in StaffIdsOf(staff) : handleShiftChange(s, schedule.startDate - 1, "N")
GenerateAutoSchedule == generateAutoSchedule
CheckFeasibilityApiSettles == \E r \in CheckReplies : checkFeasibilityApiSettles(r)
ResumeAfterCheck == resumeAfterCheck
GenerateScheduleSettles ==
    pc = "awaitGenerate" /\ \E r \in GenerateReplies(request) : generateScheduleSettles(r)
ResumeAfterGenerate == resumeAfterGenerate

Next ==
    \/ AddStaff
    \/ RemoveStaff
    \/ UpdateAssignment
    \/ ToggleLock
    \/ SetStartDate
    \/ ClearSchedule
    \/ EditPreviousPeriod
    \/ GenerateAutoSchedule
    \/ CheckFeasibilityApiSettles
    \/ ResumeAfterCheck
    \/ GenerateScheduleSettles
    \/ ResumeAfterGenerate

Spec == Init /\ [][Next]_vars

\* The event loop runs a continuation once its promise has settled; nothing
\* obliges the optimizer to answer, and the user may stop acting at any time.
FairSpec == Spec /\ WF_vars(ResumeAfterCheck) /\ WF_vars(ResumeAfterGenerate)

----------------------------------------------------------------------------
(* checkFeasibility as the program calls it: the hook hands it its          *)
(* schedule, staff, config and previousPeriodEnd whenever a start date is   *)
(* set and the staff list is not empty.  The arguments are drawn from the   *)
(* families below; staff with a juhuDay and configs with juhu keys are what *)
(* importFromJSON stores from a file written by the previous schema.        *)

CheckStaffInputs ==
    { <<[id |-> "s1", juhuDay |-> << >>]>>,
      <<[id |-> "s1", juhuDay |-> <<1>>]>>,
      <<[id |-> "s1", juhuDay |-> << >>], [id |-> "s2", juhuDay |-> <<0>>]>> }

\* Rows repeat a pattern of shifts; the i-th staff member starts i - 1 places in
RowPatterns ==
    { <<"D", "E", "N", "OFF">>, <<"N">>, <<"OFF">>,
      <<"D", "D", "D", "D", "D", "OFF", "OFF">> }

\* How many days of each row are filled, from the first day of the period
FillLengths == {0, 13, 14, 28}

rowOf(staffId, startDate, pattern, shiftBy, fill) ==
    [k \in 1..fill |->
        [staffId |-> staffId, date |-> startDate + k - 1,
         shift |-> pattern[((k - 1 + shiftBy) % Len(pattern)) + 1], isLocked |-> FALSE]]

CheckScheduleInputs(staffList) ==
    { [startDate |-> d,
       assignments |-> Flatten([i \in 1..Len(staffList) |->
                          rowOf(staffList[i].id, d, p, i - 1, fill)]),
       staffJuhuDays |-> << >>] :
        d \in StartDates, p \in RowPatterns, fill \in FillLengths }

CheckPreviousInputs(startDate) ==
    LET entry(offset, shift) ==
            [staffId |-> "s1", date |-> startDate + offset, shift |-> shift,
             isLocked |-> FALSE]
    IN  { << >>, <<entry(-1, "N")>>, <<entry(-2, "N"), entry(-1, "OFF")>> }

HardKeys == DOMAIN getDefaultConfig.constraintSeverity
SoftKeys == DOMAIN getDefaultConfig.softConstraints

CheckConfigInputs ==
    LET base == getDefaultConfig
        allSeverity(keys, v) == [base EXCEPT !.constraintSeverity = [k \in keys |-> v]]
        allEnabled(keys, v) == [base EXCEPT !.enabledConstraints = [k \in keys |-> v]]
        allSoft(v) == [base EXCEPT !.softConstraints =
                          [k \in SoftKeys |-> [base.softConstraints[k] EXCEPT !.enabled = v]]]
        noMinimum == [day |-> [min |-> 0, max |-> 2], evening |-> [min |-> 0, max |-> 2],
                      night |-> [min |-> 0, max |-> 2]]
    IN  {base}
        \cup {[base EXCEPT !.constraintSeverity[k] = "soft"] : k \in HardKeys}
        \cup {[base EXCEPT !.constraintSeverity[k] = "hard"] : k \in HardKeys}
        \cup {allSeverity(HardKeys, "soft"), allSeverity(HardKeys \cup {"juhu"}, "soft"),
              allSeverity(HardKeys \cup {"juhu"}, "hard")}
        \cup {[base EXCEPT !.enabledConstraints[k] = FALSE] : k \in HardKeys}
        \cup {allEnabled(HardKeys, FALSE), allEnabled(HardKeys \cup {"juhu"}, FALSE)}
        \cup {allSoft(TRUE), allSoft(FALSE)}
        \cup {[allSoft(FALSE) EXCEPT !.enabledConstraints = [k \in HardKeys |-> FALSE]]}
        \cup {[allSoft(TRUE) EXCEPT
                 !.constraintSeverity = [k \in HardKeys \cup {"juhu"} |-> "soft"]]}
        \cup {[base EXCEPT !.weekdayStaffing = noMinimum, !.weekendStaffing = noMinimum]}

CheckInit ==
    /\ apiConfigured = FALSE
    /\ staff \in CheckStaffInputs
    /\ schedule \in CheckScheduleInputs(staff)
    /\ config \in CheckConfigInputs
    /\ previousPeriodEnd \in CheckPreviousInputs(schedule.startDate)
    /\ generationStatus = "idle"
    /\ preCheckResult = Null
    /\ showAllViolations = FALSE
    /\ editingCell = << >>
    /\ NothingHovered
    /\ NothingStored
    /\ pc = "idle"
    /\ request = NoRequest
    /\ reply = NoReply
    /\ evaluation = NoEvaluation
    /\ result = Null

CheckConstraint == checkConstraint
CheckReturn == checkReturn

CheckNext ==
    \/ CheckConstraint
    \/ CheckReturn

CheckSpec == CheckInit /\ [][CheckNext]_vars

----------------------------------------------------------------------------
(* checkFeasibility on schedules edited cell by cell, with a previous-period *)
(* trail.  One staff member; the row of the schedule grid is given day by   *)
(* day from the first day of the period, NoShift standing for a cell left   *)
(* empty; the trail is what PreviousPeriodInput stores for the three days    *)
(* before the period (each cell a shift or left empty), or a seven-day       *)
(* trail loaded by importFromJSON.                                          *)

BoundaryStaffInputs == { <<[id |-> "s1", juhuDay |-> << >>]>> }

\* the cells of a grid row as assignments, empty cells left out
rowAssignments(staffId, firstDate, shifts) ==
    Flatten([k \in 1..Len(shifts) |->
        IF shifts[k] = NoShift THEN << >>
        ELSE <<[staffId |-> staffId, date |-> firstDate + k - 1, shift |-> shifts[k],
                isLocked |-> FALSE]>>])

BoundaryRows ==
    LET week(a, b, c, d, e, f, g) == <<a, b, c, d, e, f, g>>
        none == NoShift
    IN  { << >>,
          <<"D">>,
          <<"E">>,
          <<"N", "N", "N", "N", "N">>,
          <<"OFF", "OFF", "OFF">>,
          <<"OFF", "OFF", none, "OFF">>,
          <<none, "OFF", "OFF">>,
          <<"OFF", "D">>,
          <<"D", "D", "D", "D">>,
          <<"D", "D", "D", "D", "D", "D">>,
          <<"N", "OFF", "D", "E", "D", "N", "E">>,
          <<"N", "OFF", "E">>,
          <<"N", "N", "N">>,
          <<"N", "N", "N", "N">>,
          <<"D", "D", "OFF", "OFF">>,
          week("D", "D", "D", "D", "D", "D", "D")
            \o week("D", none, "D", none, "D", none, none)
            \o week(none, "N", "N", none, "N", "N", none)
            \o week("D", "D", "D", "D", "D", "OFF", "OFF") }

BoundaryScheduleInputs(staffList) ==
    { [startDate |-> d,
       assignments |-> rowAssignments(staffList[1].id, d, shifts),
       staffJuhuDays |-> << >>] :
        d \in StartDates, shifts \in BoundaryRows }

TrailCells == {NoShift, "D", "N", "OFF"}

BoundaryPreviousInputs(startDate) ==
    { rowAssignments("s1", startDate - 3, <<a, b, c>>) : a, b, c \in TrailCells }
    \cup { rowAssignments("s1", startDate - 7, [k \in 1..7 |-> sh]) : sh \in {"N", "D"} }

BoundaryConfigInputs ==
    LET base == getDefaultConfig
        allOn == [base EXCEPT !.softConstraints =
                     [k \in SoftKeys |-> [base.softConstraints[k] EXCEPT !.enabled = TRUE]]]
    IN  { allOn,
          [allOn EXCEPT !.maxConsecutiveNights = 2, !.weeklyWorkHours = 32,
                        !.softConstraints.maxConsecutiveWork.maxDays = 3],
          [allOn EXCEPT !.maxConsecutiveNights = 3, !.weeklyWorkHours = 41,
                        !.softConstraints.maxConsecutiveOff.maxDays = 1] }

BoundaryInit ==
    /\ apiConfigured = FALSE
    /\ staff \in BoundaryStaffInputs
    /\ schedule \in BoundaryScheduleInputs(staff)
    /\ config \in BoundaryConfigInputs
    /\ previousPeriodEnd \in BoundaryPreviousInputs(schedule.startDate)
    /\ generationStatus = "idle"
    /\ preCheckResult = Null
    /\ showAllViolations = FALSE
    /\ editingCell = << >>
    /\ NothingHovered
    /\ NothingStored
    /\ pc = "idle"
    /\ request = NoRequest
    /\ reply = NoReply
    /\ evaluation = NoEvaluation
    /\ result = Null

BoundarySpec == BoundaryInit /\ [][CheckNext]_vars

----------------------------------------------------------------------------
(* Properties of checkFeasibility, checked under CheckSpec *)

\* C1: the result of checkFeasibility has feasible = true exactly when its
\* violations list contains no violation with severity error.
C1_FeasibleIffNoError ==
    result # Null =>
        (result.feasible <=> \A v \in Range(result.violations) : v.severity # "error")

\* C1 happens: a result that is feasible although it lists violations (warnings)
C1_Witness ==
    /\ result # Null
    /\ result.feasible
    /\ result.violations # << >>

\* C2: no constraint the registry classes as soft ever emits a violation of
\* severity error, whatever the config's severity toggles hold.
C2_SoftNeverErrors ==
    result # Null =>
        \A v \in Range(result.violations) :
            (\E k \in DOMAIN constraintRegistry :
                /\ constraintRegistry[k].id = v.constraintId
                /\ constraintRegistry[k].severityType = "soft")
            => v.severity # "error"

\* C3: when constraintSeverity[id] = 'soft' for a hard constraint id, every
\* violation carrying that constraint's id is a warning, none is an error.
C3_DowngradedIsWarning ==
    result # Null =>
        \A v \in Range(result.violations) :
            LET key == constraintIdToConfigKey(v.constraintId)
            IN  (/\ key # << >>
                 /\ key[1] \in DOMAIN config.constraintSeverity
                 /\ config.constraintSeverity[key[1]] = "soft")
                => v.severity = "warning"

\* C3 happens: staffing, hard by default, is downgraded and reports a violation
C3_Witness ==
    /\ result # Null
    /\ config.constraintSeverity["staffing"] = "soft"
    /\ \E v \in Range(result.violations) :
          v.constraintId = "staffing" /\ v.severity = "warning"

\* C4: a disabled constraint contributes nothing: when a hard constraint
\* (shift-order, night-off-day, consecutive-night, weekly-off, juhu, staffing,
\* monthly-night) has its enabledConstraints flag set to false, or a soft
\* constraint has softConstraints[id].enabled = false, the result carries no
\* violation with that constraintId.
C4_DisabledContributesNothing ==
    LET flagOf(id) ==
            CASE id = "shift-order" -> <<"shiftOrder">>
              [] id = "night-off-day" -> <<"nightOffDay">>
              [] id = "consecutive-night" -> <<"consecutiveNight">>
              [] id = "weekly-off" -> <<"weeklyOff">>
              [] id = "juhu" -> <<"juhu">>
              [] id = "staffing" -> <<"staffing">>
              [] id = "monthly-night" -> <<"monthlyNight">>
              [] OTHER -> << >>
        softOf(id) ==
            CASE id = "max-consecutive-work" -> <<"maxConsecutiveWork">>
              [] id = "night-block-policy" -> <<"nightBlockPolicy">>
              [] id = "max-period-off" -> <<"maxPeriodOff">>
              [] id = "max-consecutive-off" -> <<"maxConsecutiveOff">>
              [] id = "gradual-shift-progression" -> <<"gradualShiftProgression">>
              [] id = "max-same-shift-consecutive" -> <<"maxSameShiftConsecutive">>
              [] id = "rest-clustering" -> <<"restClustering">>
              [] id = "post-rest-day-shift" -> <<"postRestDayShift">>
              [] id = "weekend-fairness" -> <<"weekendFairness">>
              [] id = "shift-continuity" -> <<"shiftContinuity">>
              [] OTHER -> << >>
        disabled(id) ==
            \/ /\ flagOf(id) # << >>
               /\ flagOf(id)[1] \in DOMAIN config.enabledConstraints
               /\ ~config.enabledConstraints[flagOf(id)[1]]
            \/ /\ softOf(id) # << >>
               /\ softOf(id)[1] \in DOMAIN config.softConstraints
               /\ ~config.softConstraints[softOf(id)[1]].enabled
    IN  result # Null =>
            \A v \in Range(result.violations) : ~disabled(v.constraintId)

----------------------------------------------------------------------------
(* Properties of the hook and of auto-generation, checked under Spec *)

\* C5: when auto-generation succeeds, every assignment that was locked when
\* generation was requested is in the schedule afterwards with the same staff,
\* date, shift and lock flag, and every cell that was not locked holds exactly
\* what the optimizer returned for it.  Three parts: the request records the
\* locked assignments of that moment, the record is not touched while the call
\* is suspended, and the successful completion merges it with the answer.
C5_LockedKeptUnlockedOverwritten ==
    [][ /\ (generationStatus # "loading" /\ generationStatus' = "loading") =>
              /\ \A a \in Range(schedule.assignments) :
                    a.isLocked => a \in Range(request'.lockedAssignments)
              /\ \A l \in Range(request'.lockedAssignments) :
                    l.isLocked /\ l \in Range(schedule.assignments)
        /\ (generationStatus = "loading" /\ generationStatus' = "loading") =>
              request' = request
        /\ (generationStatus = "loading" /\ generationStatus' = "success") =>
              LET locked == Range(request.lockedAssignments)
                  returned == Range(reply.schedule[1].assignments)
                  after == Range(schedule'.assignments)
                  onLockedCell(a) == \E l \in locked : SameCell(l, a.staffId, a.date)
              IN  /\ locked \subseteq after
                  /\ \A a \in after : onLockedCell(a) => a \in locked
                  /\ \A a \in after : ~onLockedCell(a) => a \in returned
                  /\ \A g \in returned : ~onLockedCell(g) => g \in after
      ]_vars

\* C5 happens: after a success the schedule holds a locked cell whose shift is
\* not the optimizer's, next to a cell the optimizer filled
C5_Witness ==
    /\ generationStatus = "success"
    /\ \E a \in Range(schedule.assignments) : a.isLocked /\ a.shift \notin ReplyShifts
    /\ \E a \in Range(schedule.assignments) : ~a.isLocked /\ a.shift \in ReplyShifts

\* C6: when the pre-check reports infeasible, the generate call answers with
\* success = false, or either call throws, the staff list, the schedule, the
\* config and the previous-period trail are what they were: no step of a
\* generation that does not end in success changes any of them.
C6_FailureLeavesStateUntouched ==
    [][ (/\ <<generationStatus, pc, request, reply>>' # <<generationStatus, pc, request, reply>>
         /\ generationStatus' # "success")
        => UNCHANGED <<staff, schedule, config, previousPeriodEnd>> ]_vars

\* C6 happens: a generation has failed on the generate call while the schedule
\* holds assignments
C6_Witness ==
    /\ generationStatus = "error"
    /\ preCheckResult # Null
    /\ preCheckResult.feasible
    /\ schedule.assignments # << >>

\* C7: after any interleaving of start-date selections, cell edits, lock
\* toggles, clears, generation requests and their completions, every
\* assignment of the schedule has a date inside [startDate, startDate + 28).
C7_DatesInsidePeriod ==
    \A a \in Range(schedule.assignments) :
        a.date >= schedule.startDate /\ a.date < schedule.startDate + periodDays

\* C8: generationStatus starts at idle and moves only along
\* idle -> loading -> {success, error}: loading is entered only by a request made
\* with the API configured and at least one staff member; success only from
\* loading, after a generate response with success = true; error only from
\* loading, after an infeasible pre-check, a failed response or a thrown call;
\* a later request goes from success or error back to loading.
C8_GenerationStatusMachine ==
    /\ generationStatus = "idle"
    /\ [][ generationStatus' # generationStatus =>
             \/ /\ generationStatus \in {"idle", "success", "error"}
                /\ generationStatus' = "loading"
                /\ apiConfigured
                /\ Len(staff) >= 1
                /\ request'.kind = "generate"
             \/ /\ generationStatus = "loading"
                /\ generationStatus' = "success"
                /\ reply.kind = "generate"
                /\ reply.success
             \/ /\ generationStatus = "loading"
                /\ generationStatus' = "error"
                /\ \/ reply.kind = "throw"
                   \/ reply.kind = "check" /\ ~reply.feasible
                   \/ reply.kind = "generate" /\ (~reply.success \/ reply.schedule = << >>)
         ]_vars

\* C8 happens: a second request is loading after a first one ended in error on
\* an infeasible pre-check
C8_Witness ==
    /\ generationStatus = "loading"
    /\ preCheckResult # Null
    /\ ~preCheckResult.feasible

\* C9: once generationStatus is loading it eventually becomes success or
\* error, even if the optimizer never answers.
C9_LoadingEnds ==
    (generationStatus = "loading") ~> (generationStatus \in {"success", "error"})

----------------------------------------------------------------------------
(* Properties of the constraints on edited schedules with a previous-period *)
(* trail, checked under BoundarySpec                                        *)

\* C11: for each staff member and each of the four 7-day weeks from startDate,
\* weekly-off emits exactly one violation for the week when the staff member
\* has at least 4 assignments in the week and fewer than
\* 7 - ceil(weeklyWorkHours / 8) of them are OFF, and none otherwise; a week is
\* judged by itself, whatever the other weeks and the whole schedule hold.
C11_WeeklyOffPerWeek ==
    (result # Null /\ config.enabledConstraints["weeklyOff"]) =>
        LET assignments == schedule.assignments
            first(w) == schedule.startDate + 7 * w
            inWeek(id, w) == {i \in DOMAIN assignments :
                                /\ assignments[i].staffId = id
                                /\ assignments[i].date >= first(w)
                                /\ assignments[i].date < first(w) + 7}
            offsIn(id, w) == {i \in inWeek(id, w) : assignments[i].shift = "OFF"}
            workDays == CHOOSE n \in 0..config.weeklyWorkHours :
                            8 * n >= config.weeklyWorkHours /\ 8 * (n - 1) < config.weeklyWorkHours
            expected(id, w) == /\ Cardinality(inWeek(id, w)) >= 4
                               /\ Cardinality(offsIn(id, w)) < 7 - workDays
            emitted == SelectSeq(result.violations, LAMBDA v : v.constraintId = "weekly-off")
            emittedFor(id, w) == {k \in DOMAIN emitted :
                                    /\ emitted[k].context.staffId = <<id>>
                                    /\ emitted[k].context.dates = <<[d \in 1..7 |-> first(w) + d - 1]>>}
        IN  /\ \A k \in DOMAIN emitted :
                  \E id \in StaffIdsOf(staff), w \in 0..3 : k \in emittedFor(id, w)
            /\ \A id \in StaffIdsOf(staff), w \in 0..3 :
                  Cardinality(emittedFor(id, w)) = IF expected(id, w) THEN 1 ELSE 0

\* C11 happens: a week with four assignments and no OFF is reported although
\* the schedule as a whole is less than half filled
C11_Witness ==
    /\ result # Null
    /\ config.enabledConstraints["weeklyOff"]
    /\ 2 * Len(schedule.assignments) < Len(staff) * periodDays
    /\ \E v \in Range(result.violations) : v.constraintId = "weekly-off"

\* C12: for each staff member, shift-order emits one violation, dated on the
\* later day, for exactly those pairs of consecutive days (both inside the
\* period, or the day before the period followed by day 0) whose assigned
\* shifts are N then D, N then E or E then D; a pair in which either day is OFF
\* or unassigned produces no violation.
C12_ShiftOrderPairs ==
    (result # Null /\ config.enabledConstraints["shiftOrder"]) =>
        LET forbidden == {<<"N", "D">>, <<"N", "E">>, <<"E", "D">>}
            period == schedule.startDate..(schedule.startDate + 27)
            shiftsOn(assignments, id, d) ==
                {assignments[i].shift : i \in {j \in DOMAIN assignments :
                    assignments[j].staffId = id /\ assignments[j].date = d}}
            at(id, d) == IF d \in period THEN shiftsOn(schedule.assignments, id, d)
                         ELSE shiftsOn(previousPeriodEnd, id, d)
            expected(id, d) == \E pair \in forbidden :
                                  pair[1] \in at(id, d - 1) /\ pair[2] \in at(id, d)
            emitted == SelectSeq(result.violations, LAMBDA v : v.constraintId = "shift-order")
            emittedOn(id, d) == {k \in DOMAIN emitted :
                                    /\ emitted[k].context.staffId = <<id>>
                                    /\ emitted[k].context.date = <<d>>}
        IN  /\ \A k \in DOMAIN emitted :
                  \E id \in StaffIdsOf(staff), d \in period : k \in emittedOn(id, d)
            /\ \A id \in StaffIdsOf(staff), d \in period :
                  Cardinality(emittedOn(id, d)) = IF expected(id, d) THEN 1 ELSE 0

\* C13: night-off-day emits one violation for a staff member for exactly those
\* runs of three consecutive days assigned N, OFF, D whose third day lies inside
\* the period, the N (or the N and the OFF) possibly lying in the previous-period
\* trail; the violation's dates list the three days; N, OFF followed by anything
\* other than D is not a violation.
C13_NightOffDayRuns ==
    (result # Null /\ config.enabledConstraints["nightOffDay"]) =>
        LET period == schedule.startDate..(schedule.startDate + 27)
            shiftsOn(assignments, id, d) ==
                {assignments[i].shift : i \in {j \in DOMAIN assignments :
                    assignments[j].staffId = id /\ assignments[j].date = d}}
            at(id, d) == IF d \in period THEN shiftsOn(schedule.assignments, id, d)
                         ELSE shiftsOn(previousPeriodEnd, id, d)
            expected(id, d) == "N" \in at(id, d - 2) /\ "OFF" \in at(id, d - 1) /\ "D" \in at(id, d)
            emitted == SelectSeq(result.violations, LAMBDA v : v.constraintId = "night-off-day")
            emittedFor(id, d) == {k \in DOMAIN emitted :
                                    /\ emitted[k].context.staffId = <<id>>
                                    /\ emitted[k].context.dates = << <<d - 2, d - 1, d>> >>}
        IN  /\ \A k \in DOMAIN emitted :
                  \E id \in StaffIdsOf(staff), d \in period : k \in emittedFor(id, d)
            /\ \A id \in StaffIdsOf(staff), d \in period :
                  Cardinality(emittedFor(id, d)) = IF expected(id, d) THEN 1 ELSE 0

\* C13 happens: a run whose N and OFF both lie in the previous-period trail and
\* whose D is the first day of the period is reported
C13_Witness ==
    /\ result # Null
    /\ config.enabledConstraints["nightOffDay"]
    /\ \E v \in Range(result.violations) :
          /\ v.constraintId = "night-off-day"
          /\ v.context.dates[1][2] < schedule.startDate
          /\ v.context.dates[1][3] = schedule.startDate

\* C14: for each staff member and each day d of the period, consecutive-night
\* emits a violation on d exactly when the run of consecutive N days ending at
\* d, continued backwards into the previous-period trail, is longer than
\* maxConsecutiveNights; the violation's dates are the first day of that run and
\* d; any day that is not N, or is unassigned, restarts the count.
C14_ConsecutiveNightRuns ==
    (result # Null /\ config.enabledConstraints["consecutiveNight"]) =>
        LET period == schedule.startDate..(schedule.startDate + 27)
            shiftsOn(assignments, id, d) ==
                {assignments[i].shift : i \in {j \in DOMAIN assignments :
                    assignments[j].staffId = id /\ assignments[j].date = d}}
            at(id, d) == IF d \in period THEN shiftsOn(schedule.assignments, id, d)
                         ELSE shiftsOn(previousPeriodEnd, id, d)
            night(id, d) == "N" \in at(id, d)
            \* the first day of the run of nights that ends at d
            runStart(id, d) ==
                CHOOSE f \in (schedule.startDate - 8)..d :
                    /\ \A e \in f..d : night(id, e)
                    /\ ~night(id, f - 1)
            expected(id, d) == night(id, d) /\ d - runStart(id, d) + 1 > config.maxConsecutiveNights
            emitted == SelectSeq(result.violations, LAMBDA v : v.constraintId = "consecutive-night")
            emittedOn(id, d) == {k \in DOMAIN emitted :
                                    /\ emitted[k].context.staffId = <<id>>
                                    /\ emitted[k].context.date = <<d>>}
        IN  /\ \A k \in DOMAIN emitted :
                  \E id \in StaffIdsOf(staff), d \in period : k \in emittedOn(id, d)
            /\ \A id \in StaffIdsOf(staff), d \in period :
                  /\ Cardinality(emittedOn(id, d)) = IF expected(id, d) THEN 1 ELSE 0
                  /\ \A k \in emittedOn(id, d) :
                        emitted[k].context.dates = << <<runStart(id, d), d>> >>

\* C14 happens: a run that began in the previous-period trail is reported on a
\* day of the period, within the limit had the trail not counted
C14_Witness ==
    /\ result # Null
    /\ config.enabledConstraints["consecutiveNight"]
    /\ \E v \in Range(result.violations) :
          /\ v.constraintId = "consecutive-night"
          /\ v.context.dates[1][1] < schedule.startDate
          /\ v.context.date[1] - schedule.startDate + 1 <= config.maxConsecutiveNights

\* C15: for every consecutive-X constraint (consecutive-night,
\* max-consecutive-work, max-consecutive-off, max-same-shift-consecutive) the
\* streak carried into day 0 is the number of calendar-consecutive
\* previous-period days ending on the day before startDate whose assignments
\* satisfy the streak predicate: counting stops at the first day that fails the
\* predicate, at the first unassigned day, or after 7 days.
C15_SeedIsCalendarRun ==
    result # Null =>
        LET startDate == schedule.startDate
            shiftsOn(id, d) ==
                {previousPeriodEnd[i].shift : i \in {j \in DOMAIN previousPeriodEnd :
                    previousPeriodEnd[j].staffId = id /\ previousPeriodEnd[j].date = d}}
            \* the days startDate - 1 .. startDate - n all carry a shift of the set
            holds(id, n, shifts) ==
                \A k \in 1..n : shiftsOn(id, startDate - k) # {}
                                /\ shiftsOn(id, startDate - k) \subseteq shifts
            carried(id, shifts) ==
                CHOOSE n \in 0..7 : /\ holds(id, n, shifts)
                                    /\ (n < 7 => ~holds(id, n + 1, shifts))
        IN  \A id \in StaffIdsOf(staff) :
                /\ countTrailingNights(previousPeriodEnd, id, startDate) = carried(id, {"N"})
                /\ countTrailingWorkDays(previousPeriodEnd, id, startDate)
                      = carried(id, {"D", "E", "N"})
                /\ countTrailingOffDays(previousPeriodEnd, id, startDate) = carried(id, {"OFF"})
                /\ \A shiftType \in Range(WORK_SHIFT_TYPES) :
                      countTrailingSameShift(previousPeriodEnd, id, shiftType)
                          = carried(id, {shiftType})

\* C16: for every consecutive-X constraint, giving one more day of the
\* previous-period trail (a day that had no assignment) a shift that does not
\* satisfy the constraint's streak predicate leaves the constraint's violations
\* on the current period unchanged.
C16_NonStreakDayChangesNothing ==
    result # Null =>
        LET startDate == schedule.startDate
            unassigned(id) ==
                {d \in (startDate - 3)..(startDate - 1) :
                    \A a \in Range(previousPeriodEnd) : ~(a.staffId = id /\ a.date = d)}
            extended(id, d, shift) ==
                Append(previousPeriodEnd,
                       [staffId |-> id, date |-> d, shift |-> shift, isLocked |-> FALSE])
            violationsWith(constraintId, prev) ==
                check(constraintId, contextOf(schedule, staff, config, prev))
            unchanged(constraintId, id, d, shift) ==
                violationsWith(constraintId, extended(id, d, shift))
                    = violationsWith(constraintId, previousPeriodEnd)
        IN  \A id \in StaffIdsOf(staff) : \A d \in unassigned(id) :
                /\ \A shift \in {"D", "E", "OFF"} : unchanged("consecutive-night", id, d, shift)
                /\ unchanged("max-consecutive-work", id, d, "OFF")
                /\ \A shift \in {"D", "E", "N"} : unchanged("max-consecutive-off", id, d, shift)
                /\ unchanged("max-same-shift-consecutive", id, d, "OFF")

\* C17: max-consecutive-off mirrors max-consecutive-work for OFF days: for each
\* staff member and each day d of the period it emits a violation on d exactly
\* when the run of consecutive OFF days ending at d (continued into the
\* previous-period trail) is longer than maxDays; any day of the period that is
\* not OFF, a work shift or no assignment at all, restarts the run.
C17_ConsecutiveOffRuns ==
    (result # Null /\ config.softConstraints["maxConsecutiveOff"].enabled) =>
        LET period == schedule.startDate..(schedule.startDate + 27)
            shiftsOn(assignments, id, d) ==
                {assignments[i].shift : i \in {j \in DOMAIN assignments :
                    assignments[j].staffId = id /\ assignments[j].date = d}}
            at(id, d) == IF d \in period THEN shiftsOn(schedule.assignments, id, d)
                         ELSE shiftsOn(previousPeriodEnd, id, d)
            off(id, d) == "OFF" \in at(id, d)
            \* the first day of the run of OFF days that ends at d
            runStart(id, d) ==
                CHOOSE f \in (schedule.startDate - 8)..d :
                    /\ \A e \in f..d : off(id, e)
                    /\ ~off(id, f - 1)
            expected(id, d) ==
                /\ off(id, d)
                /\ d - runStart(id, d) + 1 > config.softConstraints["maxConsecutiveOff"].maxDays
            emitted == SelectSeq(result.violations,
                                 LAMBDA v : v.constraintId = "max-consecutive-off")
            emittedOn(id, d) == {k \in DOMAIN emitted :
                                    /\ emitted[k].context.staffId = <<id>>
                                    /\ emitted[k].context.date = <<d>>}
        IN  /\ \A k \in DOMAIN emitted :
                  \E id \in StaffIdsOf(staff), d \in period : k \in emittedOn(id, d)
            /\ \A id \in StaffIdsOf(staff), d \in period :
                  Cardinality(emittedOn(id, d)) = IF expected(id, d) THEN 1 ELSE 0

----------------------------------------------------------------------------
(* Properties of the juhu constraint, checked under CheckSpec and Spec *)

C19_SolverJuhuEnforced ==
    (generationStatus = "success" /\ Len(schedule.staffJuhuDays) = 1 /\ Len(staff) > 0) =>
        LET juhuViolations ==
                IF skippedByConfig(config, "juhu") THEN << >>
                ELSE check("juhu", contextOf(schedule, staff, config, previousPeriodEnd))
        IN  \A j \in Range(schedule.staffJuhuDays[1]) :
            \A a \in Range(schedule.assignments) :
                (/\ j.staffId \in StaffIdsOf(staff)
                 /\ a.staffId = j.staffId
                 /\ a.date >= schedule.startDate
                 /\ a.date < schedule.startDate + 28
                 /\ a.date % 7 = j.juhuDay
                 /\ a.shift # "OFF")
                => \E v \in Range(juhuViolations) :
                      /\ v.constraintId = "juhu"
                      /\ v.context.staffId = <<a.staffId>>
                      /\ v.context.date = <<a.date>>

----------------------------------------------------------------------------
(* Properties of the whole registry, checked under BoundarySpec *)

\* C20: for every constraint of the registry and every input, a violation that
\* carries a context date carries one inside [startDate, startDate + 28):
\* previous-period days are read, and never appear as a violation's date.
C20_ViolationDatesInsidePeriod ==
    \A v \in Range(evaluation.violations) \cup
             (IF result # Null THEN Range(result.violations) ELSE {}) :
        Len(v.context.date) = 1 =>
            /\ v.context.date[1] >= schedule.startDate
            /\ v.context.date[1] < schedule.startDate + 28

\* C20 happens: the result holds a violation that a previous-period day caused
\* at the boundary (a forbidden transition into day 0) and a violation whose
\* run began in the previous-period trail, both dated inside the period
C20_Witness ==
    /\ result # Null
    /\ previousPeriodEnd # << >>
    /\ \E v \in Range(result.violations) :
          /\ v.constraintId = "shift-order"
          /\ v.context.date = <<schedule.startDate>>
    /\ \E v \in Range(result.violations) :
          /\ Len(v.context.date) = 1
          /\ Len(v.context.dates) = 1
          /\ v.context.dates[1][1] < schedule.startDate

\* C21: within one checkFeasibility result the violations are grouped by
\* constraint in registry order: if constraint A precedes constraint B in the
\* registry, every violation of A appears before every violation of B.
C21_RegistryOrder ==
    result # Null =>
        LET violations == result.violations
            position(id) == CHOOSE k \in DOMAIN constraintRegistry :
                                constraintRegistry[k].id = id
        IN  \A i, j \in DOMAIN violations :
                position(violations[i].constraintId) < position(violations[j].constraintId)
                    => i < j

\* C21 happens: a result with violations of at least four constraints, one of
\* them with more than one violation
C21_Witness ==
    /\ result # Null
    /\ Cardinality({v.constraintId : v \in Range(result.violations)}) >= 4
    /\ \E i, j \in DOMAIN result.violations :
          i # j /\ result.violations[i].constraintId = result.violations[j].constraintId

----------------------------------------------------------------------------
(* The view: the cell that has focus, the "show all" flag and the list of  *)
(* violations drawn from them                                              *)

RECURSIVE violationsFrom(_, _)
\* the loop of checkFeasibility from registry position i + 1 on, as one value
violationsFrom(i, ctx) ==
    IF i >= Len(constraintRegistry) THEN << >>
    ELSE LET id == constraintRegistry[i + 1].id
         IN  (IF skippedByConfig(ctx.config, id) THEN << >> ELSE check(id, ctx))
             \o violationsFrom(i + 1, ctx)

\* checkFeasibility(schedule, staff, config, previousPeriodEnd)
checkFeasibility(sched, staffList, cfg, prev) ==
    LET violations == violationsFrom(0, contextOf(sched, staffList, cfg, prev))
    IN  [feasible |-> feasibleOf(violations), violations |-> violations]

\* the hook's memoized feasibilityResult; the model's start date is always set
feasibilityResult ==
    IF Len(staff) = 0 THEN Null
    ELSE checkFeasibility(schedule, staff, config, previousPeriodEnd)

\* constraintSeverityMap[constraintId]
constraintSeverityMap(constraintId) ==
    LET i == CHOOSE k \in DOMAIN constraintRegistry :
                 constraintRegistry[k].id = constraintId
    IN  constraintRegistry[i].severityType

\* the violations of one registry class, in the order of the list
violationsOfClass(violations, severityType) ==
    SelectSeq(violations, LAMBDA v : constraintSeverityMap(v.constraintId) = severityType)

\* setEditingCell(cell), from a grid cell's onFocus and, with null, its onBlur
setEditingCell(cell) ==
    /\ editingCell' = cell
    /\ UNCHANGED <<apiConfigured, staff, schedule, config, previousPeriodEnd,
                   generationStatus, preCheckResult, showAllViolations, pc, request, reply,
                   checkVars, impactVars, storageVars>>

\* onToggleShowAll; its buttons are drawn only over a list that has violations of
\* soft constraints
toggleShowAll ==
    /\ feasibilityResult # Null
    /\ Len(violationsOfClass(feasibilityResult.violations, "soft")) > 0
    /\ showAllViolations' = ~showAllViolations
    /\ UNCHANGED <<apiConfigured, staff, schedule, config, previousPeriodEnd,
                   generationStatus, preCheckResult, editingCell, pc, request, reply,
                   checkVars, impactVars, storageVars>>

FocusCell ==
    \E s \in StaffIdsOf(staff), d \in GridDates :
        /\ editingCell = << >>
        /\ setEditingCell(<<[staffId |-> s, date |-> d]>>)
BlurCell == editingCell # << >> /\ setEditingCell(<< >>)
ToggleShowAll == toggleShowAll

ViewNext ==
    \/ AddStaff
    \/ UpdateAssignment
    \/ FocusCell
    \/ BlurCell
    \/ ToggleShowAll
    \/ GenerateAutoSchedule
    \/ CheckFeasibilityApiSettles
    \/ ResumeAfterCheck
    \/ GenerateScheduleSettles
    \/ ResumeAfterGenerate

ViewSpec == Init /\ [][ViewNext]_vars

\* C22: whenever the editing cell goes from none to some cell, showAllViolations
\* is false in the state that follows, whatever set it before.
C22_EditStartClearsShowAll ==
    [][(editingCell = << >> /\ editingCell' # << >>) => showAllViolations' = FALSE]_vars

----------------------------------------------------------------------------
(* The cells a change of the hovered cell can affect                        *)
(*                                                                          *)
(* A date string "YYYY-MM-DD" is the day number d.  new Date(string) is the *)
(* instant of that day's midnight in UTC, d * 24 hours; getDate, setDate    *)
(* and getDay read and write it in the browser's local time, and            *)
(* toISOString().split('T')[0] reads it back in UTC.  Zones keep one offset *)
(* over the period.                                                         *)

HoursPerDay == 24

\* new Date(dateString), as hours since the epoch of the day numbers
newDate(date) == date * HoursPerDay

\* the local calendar day an instant falls on
localDayOf(instant, offset) == (instant + offset) \div HoursPerDay

\* d.setDate(d.getDate() + days): the same local time of day, days later
setDateAhead(instant, days, offset) ==
    LET timeOfDay == (instant + offset) % HoursPerDay
    IN  (localDayOf(instant, offset) + days) * HoursPerDay + timeOfDay - offset

\* d.getDay()
getDayLocal(instant, offset) == localDayOf(instant, offset) % 7

\* d.toISOString().split('T')[0]
toISODate(instant) == instant \div HoursPerDay

\* the offsets of calculateCellImpact's second loop
SequenceOffsets == <<-2, -1, 1, 2>>

\* calculateCellImpact(schedule, staff, targetCell) in a browser at the offset
calculateCellImpact(sched, staffList, targetCell, offset) ==
    LET startDate == newDate(sched.startDate)
        targetDate == newDate(targetCell.date)
        others == SelectSeq(staffList, LAMBDA s : s.id # targetCell.staffId)
        staffing == [i \in 1..Len(others) |->
                        [staffId |-> others[i].id, date |-> targetCell.date,
                         reason |-> "staffing"]]
        scheduleEnd == setDateAhead(startDate, 27, offset)
        impactDate(k) == setDateAhead(targetDate, SequenceOffsets[k], offset)
        inside == SelectSeq([k \in 1..4 |-> k],
                      LAMBDA k : impactDate(k) >= startDate /\ impactDate(k) <= scheduleEnd)
        sequence == [i \in 1..Len(inside) |->
                        [staffId |-> targetCell.staffId,
                         date |-> toISODate(impactDate(inside[i])),
                         reason |-> "sequence"]]
        found == SelectSeq(staffList, LAMBDA s : s.id = targetCell.staffId)
        checkDate(n) == setDateAhead(startDate, n, offset)
        juhuDates == IF found = << >> \/ found[1].juhuDay = << >> THEN << >>
                     ELSE SelectSeq([k \in 1..periodDays |-> k - 1],
                              LAMBDA n : /\ getDayLocal(checkDate(n), offset) = found[1].juhuDay[1]
                                         /\ toISODate(checkDate(n)) # targetCell.date)
        juhu == [i \in 1..Len(juhuDates) |->
                    [staffId |-> targetCell.staffId,
                     date |-> toISODate(checkDate(juhuDates[i])), reason |-> "juhu"]]
    IN  staffing \o sequence \o juhu

\* getCellKey(staffId, date): the two parts of the key, the date being its last
\* ten characters
getCellKey(staffId, date) == <<staffId, date>>

RECURSIVE buildImpactMapFrom(_, _, _)
\* the loop of buildImpactMap from entry i on, map being the Map so far
buildImpactMapFrom(list, i, map) ==
    IF i > Len(list) THEN map
    ELSE LET key == getCellKey(list[i].staffId, list[i].date)
         IN  buildImpactMapFrom(list, i + 1,
                 IF key \in DOMAIN map THEN map ELSE map @@ (key :> list[i].reason))

\* buildImpactMap(impacts)
buildImpactMap(list) == buildImpactMapFrom(list, 1, << >>)

\* setHoveredCell(cell) and the affectedCells memo that follows it
setHoveredCell(cell) ==
    /\ hoveredCell' = cell
    /\ IF cell = << >> \/ Len(staff) = 0
       THEN impacts' = << >> /\ affectedCells' = << >>
       ELSE /\ impacts' = calculateCellImpact(schedule, staff, cell[1], timeZoneOffset)
            /\ affectedCells' = buildImpactMap(impacts')
    /\ UNCHANGED <<hookVars, checkVars, timeZoneOffset, storageVars>>

\* Staff as the grid is given them; a juhuDay is what a file of the previous
\* schema carries
ImpactStaffInputs ==
    { <<[id |-> "s1", juhuDay |-> << >>]>>,
      <<[id |-> "s1", juhuDay |-> <<5>>], [id |-> "s2", juhuDay |-> << >>]>>,
      <<[id |-> "s1", juhuDay |-> <<2>>], [id |-> "s2", juhuDay |-> << >>],
        [id |-> "s3", juhuDay |-> <<0>>]>> }

\* Asia/Seoul and America/Bogota, neither of which changes its offset
TimeZoneOffsets == {SeoulOffset, -5}

ImpactInit ==
    /\ apiConfigured = FALSE
    /\ staff \in ImpactStaffInputs
    /\ schedule \in {[startDate |-> d, assignments |-> << >>, staffJuhuDays |-> << >>] :
                        d \in StartDates}
    /\ config = getDefaultConfig
    /\ previousPeriodEnd = << >>
    /\ generationStatus = "idle"
    /\ preCheckResult = Null
    /\ showAllViolations = FALSE
    /\ editingCell = << >>
    /\ pc = "idle"
    /\ request = NoRequest
    /\ reply = NoReply
    /\ evaluation = NoEvaluation
    /\ result = Null
    /\ hoveredCell = << >>
    /\ impacts = << >>
    /\ affectedCells = << >>
    /\ timeZoneOffset \in TimeZoneOffsets
    /\ NothingStored

MouseEnterCell ==
    \E s \in StaffIdsOf(staff), n \in Days :
        setHoveredCell(<<[staffId |-> s, date |-> schedule.startDate + n]>>)
MouseLeaveCell == hoveredCell # << >> /\ setHoveredCell(<< >>)

ImpactNext ==
    \/ MouseEnterCell
    \/ MouseLeaveCell

ImpactSpec == ImpactInit /\ [][ImpactNext]_vars

\* the entries of a list, as a set
entriesOf(list) == {list[i] : i \in DOMAIN list}

\* C23: for a hovered cell of the period, the impact list holds exactly a
\* staffing entry for every other staff member on the target date, a sequence
\* entry for the same staff member on each of date-2, date-1, date+1, date+2
\* inside the 28-day window, and, when the staff member has a juhuDay, a juhu
\* entry for every date of the period on that weekday other than the target
\* date; it never holds an entry for the target cell.
C23_ImpactEntries ==
    hoveredCell # << >> =>
        LET target == hoveredCell[1]
            period == {schedule.startDate + n : n \in Days}
            member == CHOOSE i \in DOMAIN staff : staff[i].id = target.staffId
            staffing == {[staffId |-> s, date |-> target.date, reason |-> "staffing"] :
                            s \in StaffIdsOf(staff) \ {target.staffId}}
            sequence == {[staffId |-> target.staffId, date |-> d, reason |-> "sequence"] :
                            d \in {target.date - 2, target.date - 1,
                                   target.date + 1, target.date + 2} \cap period}
            juhu == IF staff[member].juhuDay = << >> THEN {}
                    ELSE {[staffId |-> target.staffId, date |-> d, reason |-> "juhu"] :
                             d \in {e \in period \ {target.date} :
                                       getDay(e) = staff[member].juhuDay[1]}}
        IN  /\ entriesOf(impacts) = staffing \cup sequence \cup juhu
            /\ \A i \in DOMAIN impacts :
                   ~(impacts[i].staffId = target.staffId /\ impacts[i].date = target.date)

----------------------------------------------------------------------------
(* buildImpactMap on its own: the exported function over any list of        *)
(* impacts, in any order                                                    *)

ImpactReasons == {"staffing", "sequence", "juhu"}

MaxImpacts == 3

\* CellImpact values over one staff member and two dates
ImpactEntries ==
    {[staffId |-> "s1", date |-> d, reason |-> r] : d \in StartDates, r \in ImpactReasons}

ImpactLists ==
    UNION {[1..n -> ImpactEntries] : n \in 0..MaxImpacts}

ImpactMapInit ==
    /\ apiConfigured = FALSE
    /\ staff = << >>
    /\ schedule \in {[startDate |-> d, assignments |-> << >>, staffJuhuDays |-> << >>] :
                        d \in StartDates}
    /\ config = getDefaultConfig
    /\ previousPeriodEnd = << >>
    /\ generationStatus = "idle"
    /\ preCheckResult = Null
    /\ showAllViolations = FALSE
    /\ editingCell = << >>
    /\ pc = "idle"
    /\ request = NoRequest
    /\ reply = NoReply
    /\ evaluation = NoEvaluation
    /\ result = Null
    /\ hoveredCell = << >>
    /\ impacts \in ImpactLists
    /\ affectedCells = << >>
    /\ timeZoneOffset = SeoulOffset
    /\ NothingStored

\* a caller hands the list to buildImpactMap and keeps the Map it returns
BuildImpactMap ==
    /\ affectedCells = << >>
    /\ affectedCells' = buildImpactMap(impacts)
    /\ UNCHANGED <<hookVars, checkVars, hoveredCell, impacts, timeZoneOffset, storageVars>>

ImpactMapNext == BuildImpactMap

ImpactMapSpec == ImpactMapInit /\ [][ImpactMapNext]_vars

\* sequence > juhu > staffing
reasonPriority(reason) ==
    CASE reason = "sequence" -> 3
      [] reason = "juhu" -> 2
      [] reason = "staffing" -> 1

----------------------------------------------------------------------------
(* useLocalStorage: one key shared by the tabs that have the page open      *)
(*                                                                          *)
(* A JSON value is null (Null), a primitive, an array or an object; an      *)
(* object carries its keys as the domain of fields.  The item under the key *)
(* is modelled by the value its text parses to: on these values             *)
(* JSON.parse(JSON.stringify(v)) has the content of v and is a new object,  *)
(* so a state update with it always renders again and runs the persist      *)
(* effect.                                                                  *)

JsonPrim(v) == [kind |-> "prim", value |-> v]
JsonArray(items) == [kind |-> "array", items |-> items]
JsonObject(fields) == [kind |-> "object", fields |-> fields]

\* v !== null && typeof v === 'object' && !Array.isArray(v)
isPlainObject(v) == v.kind = "object"

\* source ?? target
sourceOrTarget(target, source) == IF source = Null THEN target ELSE source

RECURSIVE deepMerge(_, _)
\* result[key] for a key of target that source has
nestedMerged(targetVal, sourceVal) ==
    IF isPlainObject(targetVal) /\ isPlainObject(sourceVal)
    THEN deepMerge(targetVal, sourceVal)
    ELSE sourceVal

\* deepMerge(target, source)
deepMerge(target, source) ==
    IF ~isPlainObject(target) THEN sourceOrTarget(target, source)
    ELSE IF ~isPlainObject(source) THEN sourceOrTarget(target, source)
    ELSE JsonObject([key \in DOMAIN target.fields |->
             IF key \in DOMAIN source.fields
             THEN nestedMerged(target.fields[key], source.fields[key])
             ELSE target.fields[key]])

\* the other tabs whose storage listener is registered
listeningTabsBeside(t) == {u \in Tabs \ {t} : ~isFirstRender[u]}

\* window.localStorage.setItem(key, JSON.stringify(value)) in tab t: the
\* browser dispatches a storage event to the other documents only when the
\* item's text changes
setItem(t, value) ==
    IF localStorage = <<value>>
    THEN UNCHANGED <<localStorage, storageEvents>>
    ELSE /\ localStorage' = <<value>>
         /\ storageEvents' = [u \in Tabs |->
                IF u \in listeningTabsBeside(t)
                THEN Append(storageEvents[u], value)
                ELSE storageEvents[u]]

\* the first render of the hook in tab t: the initializer of useState
readOnMount(t) ==
    /\ storedValue[t] = Unmounted
    /\ storedValue' = [storedValue EXCEPT ![t] =
           IF localStorage # << >>
           THEN deepMerge(initialValue, localStorage[1])
           ELSE initialValue]
    /\ persistPending' = [persistPending EXCEPT ![t] = TRUE]
    /\ UNCHANGED <<hookVars, checkVars, impactVars, initialValue, localStorage,
                   isFirstRender, storageEvents>>

\* the persist effect of tab t, and with the first one the registration of the
\* storage listener
persistEffect(t) ==
    /\ persistPending[t]
    /\ persistPending' = [persistPending EXCEPT ![t] = FALSE]
    /\ isFirstRender' = [isFirstRender EXCEPT ![t] = FALSE]
    /\ IF isFirstRender[t] /\ localStorage # << >>
       THEN UNCHANGED <<localStorage, storageEvents>>
       ELSE setItem(t, storedValue[t])
    /\ UNCHANGED <<hookVars, checkVars, impactVars, initialValue, storedValue>>

\* setValue(value) in tab t, with a value the caller has just built
setValue(t, value) ==
    /\ storedValue[t] # Unmounted
    /\ storedValue' = [storedValue EXCEPT ![t] = value]
    /\ persistPending' = [persistPending EXCEPT ![t] = TRUE]
    /\ UNCHANGED <<hookVars, checkVars, impactVars, initialValue, localStorage,
                   isFirstRender, storageEvents>>

\* handleStorageChange(event) in tab t, for the oldest event not yet handled
handleStorageChange(t) ==
    /\ storageEvents[t] # << >>
    /\ storedValue' = [storedValue EXCEPT ![t] = Head(storageEvents[t])]
    /\ storageEvents' = [storageEvents EXCEPT ![t] = Tail(storageEvents[t])]
    /\ persistPending' = [persistPending EXCEPT ![t] = TRUE]
    /\ UNCHANGED <<hookVars, checkVars, impactVars, initialValue, localStorage,
                   isFirstRender>>

\* the hook's state other than what useLocalStorage keeps
HookIdle ==
    /\ apiConfigured = FALSE
    /\ staff = << >>
    /\ schedule = [startDate |-> 8, assignments |-> << >>, staffJuhuDays |-> << >>]
    /\ config = getDefaultConfig
    /\ previousPeriodEnd = << >>
    /\ generationStatus = "idle"
    /\ preCheckResult = Null
    /\ showAllViolations = FALSE
    /\ editingCell = << >>
    /\ pc = "idle"
    /\ request = NoRequest
    /\ reply = NoReply
    /\ evaluation = NoEvaluation
    /\ result = Null
    /\ NothingHovered

----------------------------------------------------------------------------
(* Reading a persisted value: the schema the caller passes and the object   *)
(* an earlier version of the application stored                             *)

StoredKeys == {"a", "n", "extra"}

\* what a key of a stored object may hold
StoredLeaves ==
    { JsonPrim(7), Null, JsonArray(<<JsonPrim(7)>>),
      JsonObject([k \in {"x"} |-> JsonPrim(7)]),
      JsonObject([k \in {"y"} |-> JsonPrim(7)]) }

StoredObjects ==
    UNION {{JsonObject(f) : f \in [S -> StoredLeaves]} : S \in SUBSET StoredKeys}

StoredInputs == {<<v>> : v \in StoredObjects \cup {Null, JsonArray(<< >>)}} \cup {<< >>}

InitialValueInputs ==
    { JsonObject([k \in {"a", "n"} |->
          IF k = "a" THEN JsonPrim(0) ELSE JsonObject([j \in {"x"} |-> JsonPrim(0)])]),
      JsonObject([k \in {"a", "b"} |-> JsonPrim(0)]),
      JsonArray(<< >>) }

ReadInit ==
    /\ HookIdle
    /\ initialValue \in InitialValueInputs
    /\ localStorage \in StoredInputs
    /\ storedValue = [t \in Tabs |-> Unmounted]
    /\ isFirstRender = [t \in Tabs |-> TRUE]
    /\ persistPending = [t \in Tabs |-> FALSE]
    /\ storageEvents = [t \in Tabs |-> << >>]

ReadOnMount == readOnMount("tab1")
FirstPersistEffect == persistEffect("tab1")

ReadNext ==
    \/ ReadOnMount
    \/ FirstPersistEffect

ReadSpec == ReadInit /\ [][ReadNext]_vars

RECURSIVE keepsStoredAndDefaults(_, _, _)
\* merged has every key of stored with stored's value and every key only
\* defaults has with the default, nested objects likewise
keepsStoredAndDefaults(merged, defaults, stored) ==
    /\ isPlainObject(merged)
    /\ DOMAIN merged.fields = DOMAIN defaults.fields \cup DOMAIN stored.fields
    /\ \A key \in DOMAIN merged.fields :
           IF key \notin DOMAIN stored.fields
           THEN merged.fields[key] = defaults.fields[key]
           ELSE IF key \notin DOMAIN defaults.fields
           THEN merged.fields[key] = stored.fields[key]
           ELSE IF isPlainObject(defaults.fields[key]) /\ isPlainObject(stored.fields[key])
           THEN keepsStoredAndDefaults(merged.fields[key], defaults.fields[key],
                                       stored.fields[key])
           ELSE merged.fields[key] = stored.fields[key]

\* C25: when a tab reads a stored object against an object schema, the value
\* it holds has every key of the stored object with its stored value, keys
\* unknown to the defaults included, and every key only the defaults have
\* with its default value, recursively for nested objects.
C25_ReadKeepsStoredAndDefaults ==
    (/\ storedValue["tab1"] # Unmounted
     /\ localStorage # << >>
     /\ isPlainObject(localStorage[1])
     /\ isPlainObject(initialValue))
        => keepsStoredAndDefaults(storedValue["tab1"], initialValue, localStorage[1])

----------------------------------------------------------------------------
(* Properties of the hook while a generation is in flight                  *)

\* the cell of the assignment is locked in the list
lockedIn(assignments, a) ==
    \E i \in DOMAIN assignments :
        /\ assignments[i].staffId = a.staffId
        /\ assignments[i].date = a.date
        /\ assignments[i].isLocked

\* C26: when a successful answer is merged, every cell the user locked while
\* the request was in flight is still in the schedule, locked and with the
\* shift the user gave it.
C26_LockedDuringWaitKept ==
    [][(pc = "awaitGenerate" /\ pc' = "idle" /\ generationStatus' = "success") =>
          \A i \in DOMAIN schedule.assignments :
              LET a == schedule.assignments[i]
              IN  (a.isLocked /\ ~lockedIn(request.lockedAssignments, a)) =>
                      \E j \in DOMAIN schedule'.assignments : schedule'.assignments[j] = a]_vars

----------------------------------------------------------------------------
(* The violation list as ViolationList draws it, expanded                  *)

\* isViolationRelevantToEditingCell(violation, editingCell)
isViolationRelevantToEditingCell(violation, cell) ==
    LET staffId == violation.context.staffId
        date == violation.context.date
        dates == violation.context.dates
    IN  IF staffId # << >> /\ staffId[1] # cell.staffId THEN FALSE
        ELSE IF date # << >> /\ date[1] = cell.date THEN TRUE
        ELSE IF dates # << >> /\ (\E k \in DOMAIN dates[1] : dates[1][k] = cell.date) THEN TRUE
        ELSE IF date = << >> /\ dates = << >> /\ staffId = <<cell.staffId>> THEN TRUE
        ELSE FALSE

\* visibleSoftViolations
visibleSoftViolations(violations, cell, showAll) ==
    LET softViolations == violationsOfClass(violations, "soft")
    IN  IF showAll THEN softViolations
        ELSE IF cell # << >>
        THEN SelectSeq(softViolations, LAMBDA v : isViolationRelevantToEditingCell(v, cell[1]))
        ELSE << >>

\* the items of the list: the hard section, then the soft section
visibleViolations(violations, cell, showAll) ==
    violationsOfClass(violations, "hard") \o visibleSoftViolations(violations, cell, showAll)

\* C27: every violation of severity error of a feasibility result is among the
\* items the violation list shows for the current showAllViolations and
\* editing cell, so the list of an infeasible result is never empty.
C27_ErrorsAlwaysShown ==
    result # Null =>
        LET shown == visibleViolations(result.violations, editingCell, showAllViolations)
        IN  /\ \A i \in DOMAIN result.violations :
                   result.violations[i].severity = "error" =>
                       \E j \in DOMAIN shown : shown[j] = result.violations[i]
            /\ ~result.feasible => Len(shown) > 0

----------------------------------------------------------------------------
(* Properties of the schedule's assignment list                            *)

\* the positions of the list that hold an assignment of the cell
positionsOf(assignments, staffId, date) ==
    {i \in DOMAIN assignments :
        assignments[i].staffId = staffId /\ assignments[i].date = date}

\* C28: after any sequence of cell edits, lock toggles, clears, start-date
\* changes, staff removals and generation merges, the optimizer answering
\* with at most one assignment per cell, the schedule holds at most one
\* assignment for each (staffId, date).
C28_OneAssignmentPerCell ==
    \A i \in DOMAIN schedule.assignments :
        Cardinality(positionsOf(schedule.assignments, schedule.assignments[i].staffId,
                                schedule.assignments[i].date)) = 1

\* a merge has put an optimizer's assignment next to a locked one
C28_Witness ==
    /\ generationStatus = "success"
    /\ Len(schedule.assignments) >= 2
    /\ \E i \in DOMAIN schedule.assignments : schedule.assignments[i].isLocked
    /\ \E i \in DOMAIN schedule.assignments : ~schedule.assignments[i].isLocked

----------------------------------------------------------------------------
(* Properties of the boundary pair of the adjacent-day constraints         *)

\* the (from, to) pairs each constraint reports
offendingPairs(constraintId) ==
    CASE constraintId = "shift-order" -> {<<"N", "D">>, <<"N", "E">>, <<"E", "D">>}
      [] constraintId = "gradual-shift-progression" -> {<<"D", "N">>}
      [] constraintId = "post-rest-day-shift" -> {<<"OFF", "N">>}

\* C29: a violation of shift-order, gradual-shift-progression or
\* post-rest-day-shift dated on day 0 is reported only when the staff member's
\* trail has an assignment on the day before startDate that forms the
\* offending pair with the shift of day 0; a trail whose latest entry lies two
\* or more days before startDate produces none.
C29_BoundaryPairIsAdjacent ==
    result # Null =>
        \A k \in DOMAIN result.violations :
            LET v == result.violations[k]
            IN  (/\ v.constraintId \in {"shift-order", "gradual-shift-progression",
                                        "post-rest-day-shift"}
                 /\ v.context.date = <<schedule.startDate>>) =>
                    \E i \in DOMAIN previousPeriodEnd :
                        /\ <<previousPeriodEnd[i].staffId>> = v.context.staffId
                        /\ previousPeriodEnd[i].date = schedule.startDate - 1
                        /\ <<previousPeriodEnd[i].shift,
                             getShiftForStaffOnDate(schedule.assignments,
                                 previousPeriodEnd[i].staffId, schedule.startDate)>>
                               \in offendingPairs(v.constraintId)

----------------------------------------------------------------------------
(* Two tabs on one key: each renders the hook, its user writes values, and  *)
(* the browser delivers each tab's writes to the other as storage events    *)

\* the schema both tabs pass, and the values their users write
TabInitialValue == JsonObject([k \in {"a"} |-> JsonPrim(0)])
WriteValues == {JsonObject([k \in {"a"} |-> JsonPrim(v)]) : v \in {1, 2}}

\* the storage events waiting in all tabs together
pendingEvents == Len(storageEvents["tab1"]) + Len(storageEvents["tab2"])

\* a user does not start a write while this many events are still waiting
MaxPendingEvents == 2

TabsInit ==
    /\ HookIdle
    /\ initialValue = TabInitialValue
    /\ localStorage = << >>
    /\ storedValue = [t \in Tabs |-> Unmounted]
    /\ isFirstRender = [t \in Tabs |-> TRUE]
    /\ persistPending = [t \in Tabs |-> FALSE]
    /\ storageEvents = [t \in Tabs |-> << >>]

OpenTab == \E t \in Tabs : readOnMount(t)
PersistEffect == \E t \in Tabs : persistEffect(t)
UserWrites ==
    \E t \in Tabs, v \in WriteValues :
        /\ pendingEvents < MaxPendingEvents
        /\ ~persistPending[t]
        /\ storedValue[t] # v
        /\ setValue(t, v)
HandleStorageChange == \E t \in Tabs : handleStorageChange(t)

TabsNext ==
    \/ OpenTab
    \/ PersistEffect
    \/ UserWrites
    \/ HandleStorageChange

TabsSpec == TabsInit /\ [][TabsNext]_vars

\* React runs a scheduled effect and the browser dispatches a queued event;
\* nothing obliges a user to open a tab or to write
FairTabsSpec == TabsSpec /\ WF_vars(PersistEffect) /\ WF_vars(HandleStorageChange)

\* both tabs are open, no effect is scheduled and no event is waiting
tabsSettled ==
    /\ \A t \in Tabs : storedValue[t] # Unmounted /\ ~persistPending[t]
    /\ pendingEvents = 0

\* both tabs hold the persisted value
tabsAgree == \A t \in Tabs : localStorage = <<storedValue[t]>>

\* C30: with both tabs open, once the users stop writing, the tabs come to
\* rest: no persist effect is scheduled, no storage event is waiting, both
\* tabs hold the persisted value, and it stays so; two tabs that wrote different
\* values at about the same time do not keep overwriting each other.
C30_TabsConverge ==
    ((\A t \in Tabs : <>(storedValue[t] # Unmounted)) /\ <>[][~UserWrites]_vars)
        => <>[](tabsSettled /\ tabsAgree)

====
